---- MODULE Spec2Model ----
(***************************************************************************)
(* A model of the OpenType cmap sanitiser, gfx/ots/src/cmap.cc:            *)
(* ots_cmap_parse with its subtable parsers (formats 0, 4, 12, 13, 14),    *)
(* ots_cmap_serialise and ots_cmap_free.  The table is a sequence of       *)
(* bytes; byte k of the C buffer (0-based) is element k + 1 of the         *)
(* sequence.  A pointer into the table is the 0-based offset it points to. *)
(***************************************************************************)
EXTENDS Integers, Sequences, FiniteSets, TLC

VARIABLES data, file, pc, parse_ok, subtable_headers, i,
          out, table_start, serialise_ok, saved_checksum, file2

vars == <<data, file, pc, parse_ok, subtable_headers, i,
          out, table_start, serialise_ok, saved_checksum, file2>>

(***************************************************************************)
(* Program constants.                                                      *)
(***************************************************************************)
kMaxCMAPGroups == 65535
kFormat0ArraySize == 256
kUnicodeUpperLimit == 1114111
\* 1024 * 1024 * 1024, the limit on subtable offsets and lengths
kOneGigabyte == 1073741824
\* the null pointer: no offset into a buffer
NULL == -1

\* uint16_t arithmetic is arithmetic modulo UINT16.  TLC's numbers end at
\* 2^31 - 1: the 32-bit values of the model (the fields of the inputs and
\* what the code computes from them) all lie below 2^31, where uint32_t
\* arithmetic is exact, and only the checksum, which does wrap, is kept
\* modulo 2^32, in two 16-bit halves.
UINT16 == 65536

(***************************************************************************)
(* ots::Buffer, the bounds-checked big-endian reader.  A read of n bytes   *)
(* at `offset` of a buffer of `length` bytes fails when it would pass the  *)
(* end of the buffer.                                                      *)
(***************************************************************************)
CanRead(length, offset, n) == offset + n <= length

U8At(d, o) == d[o + 1]

U16At(d, o) == d[o + 1] * 256 + d[o + 2]

S16At(d, o) == IF U16At(d, o) >= 32768 THEN U16At(d, o) - UINT16 ELSE U16At(d, o)

U24At(d, o) == d[o + 1] * 65536 + d[o + 2] * 256 + d[o + 3]

U32At(d, o) == d[o + 1] * 16777216 + d[o + 2] * 65536 + d[o + 3] * 256 + d[o + 4]

\* the bytes of the slice (pointer, length) of buffer d
Slice(d, pointer, length) == SubSeq(d, pointer + 1, pointer + length)

(***************************************************************************)
(* OpenTypeCMAP as constructed: no subtable.                               *)
(***************************************************************************)
EmptyCMAP ==
  [ subtable_1_0_0 |-> <<>>,
    subtable_3_0_4_data |-> NULL, subtable_3_0_4_length |-> 0,
    subtable_3_1_4_data |-> NULL, subtable_3_1_4_length |-> 0,
    subtable_3_10_12 |-> <<>>,
    subtable_3_10_13 |-> <<>>,
    subtable_0_5_14_data |-> NULL, subtable_0_5_14_length |-> 0 ]

\* file->cmap; file.cmap is <<>> for a null pointer and <<c>> for an object
CMAP(f) == f.cmap[1]

SetCMAP(f, c) == [f EXCEPT !.cmap = <<c>>]

(***************************************************************************)
(* Parse3x4: format 4.                                                     *)
(***************************************************************************)
RECURSIVE Log2Segcount(_, _)
Log2Segcount(segcount, log2segcount) ==
  IF 2 ^ (log2segcount + 1) <= segcount
  THEN Log2Segcount(segcount, log2segcount + 1)
  ELSE log2segcount

\* the header checks, up to and including the id_range_offset array
F4HeaderOk(d, base, length) ==
  LET segcountx2 == U16At(d, base + 6)
      search_range == U16At(d, base + 8)
      entry_selector == U16At(d, base + 10)
      range_shift == U16At(d, base + 12)
      segcount == segcountx2 \div 2
      log2segcount == Log2Segcount(segcount, 0)
  IN /\ CanRead(length, 0, 4)
     /\ CanRead(length, 4, 2)
     /\ U16At(d, base + 4) = 0
     /\ CanRead(length, 6, 8)
     /\ ~(segcountx2 % 2 = 1 \/ search_range % 2 = 1)
     /\ ~(segcount < 1)
     /\ (2 * 2 ^ log2segcount) % UINT16 = search_range
     /\ entry_selector = log2segcount
     /\ range_shift = (segcountx2 - search_range) % UINT16
     /\ CanRead(length, 14, 2 * segcount)
     /\ CanRead(length, 14 + 2 * segcount, 2)
     /\ U16At(d, base + 14 + 2 * segcount) = 0
     /\ CanRead(length, 16 + 2 * segcount, 2 * segcount)
     /\ CanRead(length, 16 + 4 * segcount, 2 * segcount)
     /\ \A k \in 0 .. segcount - 1 :
          /\ CanRead(length, 16 + 6 * segcount + 2 * k, 2)
          /\ U16At(d, base + 16 + 6 * segcount + 2 * k) % 2 = 1 => k = segcount - 1

\* ranges[], as left by the four reading loops; the odd id_range_offset of
\* the last segment is replaced by 0
F4Ranges(d, base) ==
  LET segcount == U16At(d, base + 6) \div 2
  IN [ k \in 1 .. segcount |->
       [ end_range |-> U16At(d, base + 14 + 2 * (k - 1)),
         start_range |-> U16At(d, base + 16 + 2 * segcount + 2 * (k - 1)),
         id_delta |-> S16At(d, base + 16 + 4 * segcount + 2 * (k - 1)),
         id_range_offset |->
           IF U16At(d, base + 16 + 6 * segcount + 2 * (k - 1)) % 2 = 1
           THEN 0
           ELSE U16At(d, base + 16 + 6 * segcount + 2 * (k - 1)),
         id_range_offset_offset |-> 16 + 6 * segcount + 2 * (k - 1) ] ]

\* the correction without the test for the end of 0xFFFF
FixCharIndexToTerminator(os2, range) ==
  LET first == IF /\ os2.first_char_index # 65535
                  /\ range.start_range # 65535
                  /\ os2.first_char_index > range.start_range
               THEN range.start_range
               ELSE os2.first_char_index
      last == IF /\ os2.last_char_index # 65535
                 /\ os2.last_char_index < range.end_range
              THEN range.end_range
              ELSE os2.last_char_index
  IN [first_char_index |-> first, last_char_index |-> last]

\* the correction of OS/2 first_char_index and last_char_index by one range
FixCharIndex(os2, range) ==
  LET first == IF /\ os2.first_char_index # 65535
                  /\ range.start_range # 65535
                  /\ os2.first_char_index > range.start_range
               THEN range.start_range
               ELSE os2.first_char_index
      last == IF /\ os2.last_char_index # 65535
                 /\ range.end_range # 65535
                 /\ os2.last_char_index < range.end_range
              THEN range.end_range
              ELSE os2.last_char_index
  IN [first_char_index |-> first, last_char_index |-> last]

\* the loop over ranges 1 .. segcount - 1 that checks the order and corrects
\* OS/2; n is the loop index (0-based, as in the code)
RECURSIVE F4CheckOrder(_, _, _)
F4CheckOrder(ranges, n, os2) ==
  LET segcount == Len(ranges)
      cur == ranges[n + 1]
      prev == ranges[n]
  IN IF ~(n < segcount) THEN [ok |-> TRUE, os2 |-> os2]
     ELSE IF /\ n = segcount - 1
             /\ prev.start_range = 65535
             /\ prev.end_range = 65535
             /\ cur.start_range = 65535
             /\ cur.end_range = 65535
          THEN F4CheckOrder(ranges, n + 1, os2)
     ELSE IF cur.end_range <= prev.end_range THEN [ok |-> FALSE, os2 |-> os2]
     ELSE IF cur.start_range <= prev.end_range THEN [ok |-> FALSE, os2 |-> os2]
     ELSE F4CheckOrder(ranges, n + 1, FixCharIndex(os2, cur))

\* glyph_id_offset, a uint32_t
GlyphIdOffset(range, code_point) ==
  range.id_range_offset_offset + range.id_range_offset
  + ((code_point - range.start_range) % UINT16) * 2

\* the bounds check off by one: the second byte may lie at `length`
GlyphReadInBoundsOffByOne(glyph_id_offset, length) ==
  ~(glyph_id_offset + 1 > length)

\* "We need to be able to access a 16-bit value from this offset"
GlyphReadInBounds(glyph_id_offset, length) ==
  ~(glyph_id_offset + 1 >= length)

\* the addresses (offsets in the subtable) that the simulated lookup of one
\* code point reads with memcpy
LookupReads(range, code_point, length) ==
  IF range.id_range_offset = 0 THEN {}
  ELSE IF ~GlyphReadInBounds(GlyphIdOffset(range, code_point), length) THEN {}
  ELSE {GlyphIdOffset(range, code_point), GlyphIdOffset(range, code_point) + 1}

\* the simulated lookup of one code point
LookupOk(d, base, length, range, code_point, num_glyphs) ==
  IF range.id_range_offset = 0
  THEN ~((code_point + range.id_delta) % UINT16 >= num_glyphs)
  ELSE /\ GlyphReadInBounds(GlyphIdOffset(range, code_point), length)
       /\ ~(U16At(d, base + GlyphIdOffset(range, code_point)) >= num_glyphs)

\* the simulation loop: the ranges from index 1 on
F4SimulateOk(d, base, length, ranges, num_glyphs) ==
  \A n \in 1 .. Len(ranges) - 1 :
    \A cp \in ranges[n + 1].start_range .. ranges[n + 1].end_range :
      LookupOk(d, base, length, ranges[n + 1], cp, num_glyphs)

Parse3x4(f, encoding, d, base, length, num_glyphs) ==
  IF f.os2 = <<>> THEN [ok |-> FALSE, file |-> f]
  ELSE IF ~F4HeaderOk(d, base, length) THEN [ok |-> FALSE, file |-> f]
  ELSE
    LET ranges == F4Ranges(d, base)
        order == F4CheckOrder(ranges, 1, f.os2[1])
        f1 == [f EXCEPT !.os2 = <<order.os2>>]
    IN IF ~order.ok THEN [ok |-> FALSE, file |-> f1]
       ELSE IF ranges[Len(ranges)].end_range # 65535 THEN [ok |-> FALSE, file |-> f1]
       ELSE IF ~F4SimulateOk(d, base, length, ranges, num_glyphs)
            THEN [ok |-> FALSE, file |-> f1]
       ELSE IF encoding = 0
            THEN [ok |-> TRUE,
                  file |-> SetCMAP(f1, [CMAP(f1) EXCEPT !.subtable_3_0_4_data = base,
                                                        !.subtable_3_0_4_length = length])]
       ELSE IF encoding = 1
            THEN [ok |-> TRUE,
                  file |-> SetCMAP(f1, [CMAP(f1) EXCEPT !.subtable_3_1_4_data = base,
                                                        !.subtable_3_1_4_length = length])]
       ELSE [ok |-> FALSE, file |-> f1]

(***************************************************************************)
(* Parse31012 and Parse31013: formats 12 and 13.                           *)
(***************************************************************************)
ZeroRange == [start_range |-> 0, end_range |-> 0, start_glyph_id |-> 0]

\* std::vector::resize
Resize(v, n) ==
  [ k \in 1 .. n |-> IF k <= Len(v) THEN v[k] ELSE ZeroRange ]

\* the three ReadU32 of one group, at `offset` of the subtable: each field
\* is assigned when its read succeeds, and a failed read ends the reading
ReadGroup(d, base, length, offset, group) ==
  IF ~CanRead(length, offset, 4) THEN [ok |-> FALSE, group |-> group]
  ELSE IF ~CanRead(length, offset + 4, 4)
       THEN [ok |-> FALSE,
             group |-> [group EXCEPT !.start_range = U32At(d, base + offset)]]
  ELSE IF ~CanRead(length, offset + 8, 4)
       THEN [ok |-> FALSE,
             group |-> [group EXCEPT !.start_range = U32At(d, base + offset),
                                     !.end_range = U32At(d, base + offset + 4)]]
  ELSE [ok |-> TRUE,
        group |-> [start_range |-> U32At(d, base + offset),
                   end_range |-> U32At(d, base + offset + 4),
                   start_glyph_id |-> U32At(d, base + offset + 8)]]

\* the limits both formats put on the three values of a group
GroupLimitsOk(group) ==
  ~( \/ group.start_range > kUnicodeUpperLimit
     \/ group.end_range > kUnicodeUpperLimit
     \/ group.start_glyph_id > 65535 )

\* the surrogate checks without the check of start_range
SurrogatesOkWithoutStart(group) ==
  /\ ~(group.end_range >= 55296 /\ group.end_range <= 57343)
  /\ ~(group.start_range < 55296 /\ group.end_range > 57343)

\* [0xD800, 0xDFFF] are surrogate code points
SurrogatesOk(group) ==
  /\ ~(group.start_range >= 55296 /\ group.start_range <= 57343)
  /\ ~(group.end_range >= 55296 /\ group.end_range <= 57343)
  /\ ~(group.start_range < 55296 /\ group.end_range > 57343)

\* "We assert that the glyph value is within range"
GlyphRangeOk(group, num_glyphs) ==
  /\ ~(group.end_range < group.start_range)
  /\ ~((group.end_range - group.start_range) + group.start_glyph_id > num_glyphs)

Group12Ok(group, num_glyphs) ==
  /\ GroupLimitsOk(group)
  /\ SurrogatesOk(group)
  /\ GlyphRangeOk(group, num_glyphs)

Group13Ok(group, num_glyphs) ==
  /\ GroupLimitsOk(group)
  /\ ~(group.start_glyph_id >= num_glyphs)

\* the reading loop of Parse31012: n is the loop index (0-based)
RECURSIVE ReadGroups12(_, _, _, _, _, _)
ReadGroups12(d, base, length, groups, n, num_glyphs) ==
  IF ~(n < Len(groups)) THEN [ok |-> TRUE, groups |-> groups]
  ELSE LET r == ReadGroup(d, base, length, 16 + 12 * n, groups[n + 1])
           g == [groups EXCEPT ![n + 1] = r.group]
       IN IF ~r.ok THEN [ok |-> FALSE, groups |-> g]
          ELSE IF ~Group12Ok(r.group, num_glyphs) THEN [ok |-> FALSE, groups |-> g]
          ELSE ReadGroups12(d, base, length, g, n + 1, num_glyphs)

\* the reading loop of Parse31013
RECURSIVE ReadGroups13(_, _, _, _, _, _)
ReadGroups13(d, base, length, groups, n, num_glyphs) ==
  IF ~(n < Len(groups)) THEN [ok |-> TRUE, groups |-> groups]
  ELSE LET r == ReadGroup(d, base, length, 14 + 12 * n, groups[n + 1])
           g == [groups EXCEPT ![n + 1] = r.group]
       IN IF ~r.ok THEN [ok |-> FALSE, groups |-> g]
          ELSE IF ~Group13Ok(r.group, num_glyphs) THEN [ok |-> FALSE, groups |-> g]
          ELSE ReadGroups13(d, base, length, g, n + 1, num_glyphs)

\* "the groups must be sorted by start code and may not overlap"
GroupsSorted(groups) ==
  \A n \in 1 .. Len(groups) - 1 :
    /\ ~(groups[n + 1].start_range <= groups[n].start_range)
    /\ ~(groups[n + 1].start_range <= groups[n].end_range)

Parse31012(f, d, base, length, num_glyphs) ==
  LET num_groups == U32At(d, base + 12)
  IN IF ~CanRead(length, 0, 8) THEN [ok |-> FALSE, file |-> f]
     ELSE IF ~CanRead(length, 8, 4) THEN [ok |-> FALSE, file |-> f]
     ELSE IF U32At(d, base + 8) # 0 THEN [ok |-> FALSE, file |-> f]
     ELSE IF ~CanRead(length, 12, 4) THEN [ok |-> FALSE, file |-> f]
     ELSE IF num_groups = 0 \/ num_groups > kMaxCMAPGroups THEN [ok |-> FALSE, file |-> f]
     ELSE LET r == ReadGroups12(d, base, length,
                                Resize(CMAP(f).subtable_3_10_12, num_groups), 0, num_glyphs)
              f1 == SetCMAP(f, [CMAP(f) EXCEPT !.subtable_3_10_12 = r.groups])
          IN [ok |-> r.ok /\ GroupsSorted(r.groups), file |-> f1]

Parse31013(f, d, base, length, num_glyphs) ==
  LET num_groups == U32At(d, base + 10)
  IN IF ~CanRead(length, 0, 8) THEN [ok |-> FALSE, file |-> f]
     ELSE IF ~CanRead(length, 8, 2) THEN [ok |-> FALSE, file |-> f]
     ELSE IF U16At(d, base + 8) # 0 THEN [ok |-> FALSE, file |-> f]
     ELSE IF ~CanRead(length, 10, 4) THEN [ok |-> FALSE, file |-> f]
     ELSE IF num_groups = 0 \/ num_groups > kMaxCMAPGroups THEN [ok |-> FALSE, file |-> f]
     ELSE LET r == ReadGroups13(d, base, length,
                                Resize(CMAP(f).subtable_3_10_13, num_groups), 0, num_glyphs)
              f1 == SetCMAP(f, [CMAP(f) EXCEPT !.subtable_3_10_13 = r.groups])
          IN [ok |-> r.ok /\ GroupsSorted(r.groups), file |-> f1]

(***************************************************************************)
(* Parse0514: format 14.                                                   *)
(***************************************************************************)
\* the default UVS table: uvs_length bytes at uvs (an offset in the table);
\* j is the loop index, prev_end_unicode the end of the range before
RECURSIVE DefaultUVSOk(_, _, _, _, _, _)
DefaultUVSOk(d, uvs, uvs_length, num_unicode_value_ranges, j, prev_end_unicode) ==
  LET start_unicode == U24At(d, uvs + 4 + 4 * j)
      end_unicode == start_unicode + U8At(d, uvs + 4 + 4 * j + 3)
  IN IF ~(j < num_unicode_value_ranges) THEN TRUE
     ELSE IF ~CanRead(uvs_length, 4 + 4 * j, 3) THEN FALSE
     ELSE IF ~CanRead(uvs_length, 4 + 4 * j + 3, 1) THEN FALSE
     ELSE IF (j > 0 /\ start_unicode <= prev_end_unicode)
             \/ end_unicode > kUnicodeUpperLimit THEN FALSE
     ELSE DefaultUVSOk(d, uvs, uvs_length, num_unicode_value_ranges, j + 1, end_unicode)

\* the non-default UVS table with glyph ids up to num_glyphs
RECURSIVE NonDefaultUVSOkUpTo(_, _, _, _, _, _, _)
NonDefaultUVSOkUpTo(d, uvs, uvs_length, num_uvs_mappings, j, prev_unicode, num_glyphs) ==
  LET unicode_value == U24At(d, uvs + 4 + 5 * j)
      glyph == U16At(d, uvs + 4 + 5 * j + 3)
  IN IF ~(j < num_uvs_mappings) THEN TRUE
     ELSE IF ~CanRead(uvs_length, 4 + 5 * j, 3) THEN FALSE
     ELSE IF (j > 0 /\ unicode_value <= prev_unicode)
             \/ unicode_value > kUnicodeUpperLimit THEN FALSE
     ELSE IF ~CanRead(uvs_length, 4 + 5 * j + 3, 2) THEN FALSE
     ELSE IF glyph > num_glyphs THEN FALSE
     ELSE NonDefaultUVSOkUpTo(d, uvs, uvs_length, num_uvs_mappings, j + 1,
                              unicode_value, num_glyphs)

\* the non-default UVS table
RECURSIVE NonDefaultUVSOk(_, _, _, _, _, _, _)
NonDefaultUVSOk(d, uvs, uvs_length, num_uvs_mappings, j, prev_unicode, num_glyphs) ==
  LET unicode_value == U24At(d, uvs + 4 + 5 * j)
      glyph == U16At(d, uvs + 4 + 5 * j + 3)
  IN IF ~(j < num_uvs_mappings) THEN TRUE
     ELSE IF ~CanRead(uvs_length, 4 + 5 * j, 3) THEN FALSE
     ELSE IF (j > 0 /\ unicode_value <= prev_unicode)
             \/ unicode_value > kUnicodeUpperLimit THEN FALSE
     ELSE IF ~CanRead(uvs_length, 4 + 5 * j + 3, 2) THEN FALSE
     ELSE IF glyph >= num_glyphs THEN FALSE
     ELSE NonDefaultUVSOk(d, uvs, uvs_length, num_uvs_mappings, j + 1,
                          unicode_value, num_glyphs)

\* the loop over the variation selector records; n is the loop index
RECURSIVE VarSelectorRecordsOk(_, _, _, _, _, _, _)
VarSelectorRecordsOk(d, base, length, num_var_selector_records, n, prev_var_selector, num_glyphs) ==
  LET var_selector == U24At(d, base + 10 + 11 * n)
      def_uvs_offset == U32At(d, base + 10 + 11 * n + 3)
      non_def_uvs_offset == U32At(d, base + 10 + 11 * n + 7)
  IN IF ~(n < num_var_selector_records) THEN TRUE
     ELSE IF ~CanRead(length, 10 + 11 * n, 3) THEN FALSE
     ELSE IF ~CanRead(length, 10 + 11 * n + 3, 4) THEN FALSE
     ELSE IF ~CanRead(length, 10 + 11 * n + 7, 4) THEN FALSE
     ELSE IF \/ var_selector <= prev_var_selector
             \/ var_selector > kUnicodeUpperLimit
             \/ def_uvs_offset > length - 4
             \/ non_def_uvs_offset > length - 4 THEN FALSE
     ELSE IF /\ def_uvs_offset # 0
             /\ ~( /\ CanRead(length - def_uvs_offset, 0, 4)
                   /\ DefaultUVSOk(d, base + def_uvs_offset, length - def_uvs_offset,
                                   U32At(d, base + def_uvs_offset), 0, 0) )
          THEN FALSE
     ELSE IF /\ non_def_uvs_offset # 0
             /\ ~( /\ CanRead(length - non_def_uvs_offset, 0, 4)
                   /\ NonDefaultUVSOk(d, base + non_def_uvs_offset,
                                      length - non_def_uvs_offset,
                                      U32At(d, base + non_def_uvs_offset), 0, 0,
                                      num_glyphs) )
          THEN FALSE
     ELSE VarSelectorRecordsOk(d, base, length, num_var_selector_records, n + 1,
                               var_selector, num_glyphs)

Parse0514(f, d, base, length, num_glyphs) ==
  IF ~CanRead(length, 0, 6) THEN [ok |-> FALSE, file |-> f]
  ELSE IF ~CanRead(length, 6, 4) THEN [ok |-> FALSE, file |-> f]
  ELSE IF (length - 10) \div 11 < U32At(d, base + 6) THEN [ok |-> FALSE, file |-> f]
  ELSE IF ~VarSelectorRecordsOk(d, base, length, U32At(d, base + 6), 0, 0, num_glyphs)
       THEN [ok |-> FALSE, file |-> f]
  ELSE [ok |-> TRUE,
        file |-> SetCMAP(f, [CMAP(f) EXCEPT !.subtable_0_5_14_data = base,
                                            !.subtable_0_5_14_length = length])]

(***************************************************************************)
(* Parse100: format 0.                                                     *)
(***************************************************************************)
\* how many of the kFormat0ArraySize ReadU8 succeed
Format0Readable(length) ==
  IF length - 6 >= kFormat0ArraySize THEN kFormat0ArraySize
  ELSE IF length - 6 > 0 THEN length - 6
  ELSE 0

Parse100(f, d, base, length) ==
  IF ~CanRead(length, 0, 4) THEN [ok |-> FALSE, file |-> f]
  ELSE IF ~CanRead(length, 4, 2) THEN [ok |-> FALSE, file |-> f]
  ELSE [ok |-> Format0Readable(length) = kFormat0ArraySize,
        file |-> SetCMAP(f, [CMAP(f) EXCEPT !.subtable_1_0_0 =
                   @ \o [ k \in 1 .. Format0Readable(length) |-> U8At(d, base + 6 + k - 1) ]])]

(***************************************************************************)
(* ots_cmap_parse: the directory.                                          *)
(***************************************************************************)
\* "read the subtable headers"
ReadHeaders(d, num_tables) ==
  [ k \in 1 .. num_tables |->
    [ platform |-> U16At(d, 4 + 8 * (k - 1)),
      encoding |-> U16At(d, 4 + 8 * (k - 1) + 2),
      offset |-> U32At(d, 4 + 8 * (k - 1) + 4),
      format |-> 0,
      length |-> 0 ] ]

\* the id with the encoding in the high half
SubtableIdByEncoding(h) == h.encoding * 65536 + h.platform

\* (platform << 16) + encoding, the id that the records are ordered by
SubtableId(h) == h.platform * 65536 + h.encoding

\* the check of the offsets with an order that lets equal ids pass
OffsetsValidWithEqualIds(headers, data_offset, length) ==
  \A k \in 1 .. Len(headers) :
    /\ ~(headers[k].offset > kOneGigabyte)
    /\ ~(headers[k].offset < data_offset \/ headers[k].offset >= length)
    /\ ~(k # 1 /\ SubtableId(headers[k - 1]) > SubtableId(headers[k]))

\* "make sure that all the offsets are valid", and the order of the records
OffsetsValid(headers, data_offset, length) ==
  \A k \in 1 .. Len(headers) :
    /\ ~(headers[k].offset > kOneGigabyte)
    /\ ~(headers[k].offset < data_offset \/ headers[k].offset >= length)
    /\ ~(k # 1 /\ SubtableId(headers[k - 1]) >= SubtableId(headers[k]))

\* whether the format and the length of the subtable at h.offset can be read
FormatReadable(d, length, h) ==
  /\ CanRead(length, h.offset, 2)
  /\ LET format == U16At(d, h.offset)
     IN CASE format \in {0, 4} -> CanRead(length, h.offset + 2, 2)
          [] format \in {12, 13} -> /\ CanRead(length, h.offset + 2, 2)
                                    /\ CanRead(length, h.offset + 4, 4)
          [] format = 14 -> CanRead(length, h.offset + 2, 4)
          [] OTHER -> TRUE

\* the header with its format and its length, stored in a format-specific way
WithFormat(d, h) ==
  LET format == U16At(d, h.offset)
  IN [h EXCEPT !.format = format,
               !.length = CASE format \in {0, 4} -> U16At(d, h.offset + 2)
                            [] format \in {12, 13} -> U32At(d, h.offset + 4)
                            [] format = 14 -> U32At(d, h.offset + 2)
                            [] OTHER -> 0]

\* "verify that all the lengths are sane"
LengthsSane(headers, length) ==
  \A k \in 1 .. Len(headers) :
    \/ headers[k].length = 0
    \/ /\ ~(headers[k].length > kOneGigabyte)
       /\ ~(headers[k].offset + headers[k].length > length)

EndByte(h) == h.offset + h.length

\* overlap_checker without uniq_checker: every extent has its start and end
RECURSIVE OverlapCheckerOfAll(_, _, _)
OverlapCheckerOfAll(headers, k, uniq_checker) ==
  IF k > Len(headers) THEN <<>>
  ELSE << <<headers[k].offset, 1>>, <<EndByte(headers[k]), 0>> >>
       \o OverlapCheckerOfAll(headers, k + 1, uniq_checker)

\* overlap_checker before it is sorted: a start and an end for each extent
\* that uniq_checker had not seen; 1 marks a start, 0 an end
RECURSIVE OverlapChecker(_, _, _)
OverlapChecker(headers, k, uniq_checker) ==
  IF k > Len(headers) THEN <<>>
  ELSE IF <<headers[k].offset, EndByte(headers[k])>> \in uniq_checker
       THEN OverlapChecker(headers, k + 1, uniq_checker)
  ELSE <<>> \o << <<headers[k].offset, 1>>, <<EndByte(headers[k]), 0>> >>
       \o OverlapChecker(headers, k + 1,
                         uniq_checker \cup {<<headers[k].offset, EndByte(headers[k])>>})

\* operator< of std::pair
PairLess(a, b) == a[1] < b[1] \/ (a[1] = b[1] /\ a[2] < b[2])

\* std::sort of a vector of pairs
RECURSIVE SortPairs(_)
SortPairs(v) ==
  IF v = <<>> THEN <<>>
  ELSE LET least == CHOOSE k \in 1 .. Len(v) : \A m \in 1 .. Len(v) : ~PairLess(v[m], v[k])
       IN <<v[least]>> \o SortPairs(SubSeq(v, 1, least - 1) \o SubSeq(v, least + 1, Len(v)))

\* overlap_count after the first n entries
RECURSIVE OverlapCount(_, _)
OverlapCount(sorted, n) ==
  IF n = 0 THEN 0
  ELSE OverlapCount(sorted, n - 1) + (IF sorted[n][2] # 0 THEN 1 ELSE -1)

\* "check that the cmap subtables are not overlapping"
NoOverlap(headers) ==
  LET sorted == SortPairs(OverlapChecker(headers, 1, {}))
  IN \A n \in 1 .. Len(sorted) : ~(OverlapCount(sorted, n) > 1)

\* ots_cmap_parse up to the dispatch loop: the file with its new
\* OpenTypeCMAP, and the subtable headers when every check passed
ParseDirectory(f, d) ==
  LET length == Len(d)
      f1 == SetCMAP(f, EmptyCMAP)
      fail == [ok |-> FALSE, file |-> f1, headers |-> <<>>]
      num_tables == U16At(d, 2)
      headers == ReadHeaders(d, num_tables)
      with_format == [ k \in 1 .. num_tables |-> WithFormat(d, headers[k]) ]
  IN IF ~CanRead(length, 0, 2) \/ ~CanRead(length, 2, 2) THEN fail
     ELSE IF U16At(d, 0) # 0 THEN fail
     ELSE IF num_tables = 0 THEN fail
     ELSE IF ~CanRead(length, 4, 8 * num_tables) THEN fail
     ELSE IF ~OffsetsValid(headers, 4 + 8 * num_tables, length) THEN fail
     ELSE IF ~(\A k \in 1 .. num_tables : FormatReadable(d, length, headers[k])) THEN fail
     ELSE IF ~LengthsSane(with_format, length) THEN fail
     ELSE IF ~NoOverlap(with_format) THEN fail
     ELSE IF f.maxp = <<>> THEN fail
     ELSE [ok |-> TRUE, file |-> f1, headers |-> with_format]

\* one pass of the dispatch loop: the subtable parser that header h selects
DispatchRecord(f, h, d, num_glyphs) ==
  IF h.platform = 0 THEN
    IF h.encoding = 0 /\ h.format = 4
    THEN Parse3x4(f, 1, d, h.offset, h.length, num_glyphs)
    ELSE IF h.encoding = 3 /\ h.format = 4
    THEN Parse3x4(f, 1, d, h.offset, h.length, num_glyphs)
    ELSE IF h.encoding = 3 /\ h.format = 12
    THEN Parse31012(f, d, h.offset, h.length, num_glyphs)
    ELSE IF h.encoding = 5 /\ h.format = 14
    THEN Parse0514(f, d, h.offset, h.length, num_glyphs)
    ELSE [ok |-> TRUE, file |-> f]
  ELSE IF h.platform = 1 THEN
    IF h.encoding = 0 /\ h.format = 0
    THEN Parse100(f, d, h.offset, h.length)
    ELSE [ok |-> TRUE, file |-> f]
  ELSE IF h.platform = 3 THEN
    IF h.encoding \in {0, 1} THEN
      IF h.format = 4
      THEN Parse3x4(f, h.encoding, d, h.offset, h.length, num_glyphs)
      ELSE [ok |-> TRUE, file |-> f]
    ELSE IF h.encoding = 10 THEN
      IF h.format = 12
      THEN Parse31012(SetCMAP(f, [CMAP(f) EXCEPT !.subtable_3_10_12 = <<>>]),
                      d, h.offset, h.length, num_glyphs)
      ELSE IF h.format = 13
      THEN Parse31013(SetCMAP(f, [CMAP(f) EXCEPT !.subtable_3_10_13 = <<>>]),
                      d, h.offset, h.length, num_glyphs)
      ELSE [ok |-> TRUE, file |-> f]
    ELSE [ok |-> TRUE, file |-> f]
  ELSE [ok |-> TRUE, file |-> f]

\* the dispatch loop from index n (0-based) on
RECURSIVE DispatchFrom(_, _, _, _)
DispatchFrom(f, headers, n, d) ==
  IF ~(n < Len(headers)) THEN [ok |-> TRUE, file |-> f]
  ELSE LET r == DispatchRecord(f, headers[n + 1], d, f.maxp[1].num_glyphs)
       IN IF ~r.ok THEN r ELSE DispatchFrom(r.file, headers, n + 1, d)

\* ots_cmap_parse as a whole
ots_cmap_parse(f, d) ==
  LET dir == ParseDirectory(f, d)
  IN IF ~dir.ok THEN [ok |-> FALSE, file |-> dir.file]
     ELSE DispatchFrom(dir.file, dir.headers, 0, d)

(***************************************************************************)
(* OTSStream, the output stream.  buf holds the bytes written so far, pos  *)
(* is the position of the next write, chksum and chksum_buffer are the     *)
(* checksum state (the sum of the big-endian 32-bit words written, and the *)
(* bytes of a word not yet complete).  fuel is the number of writes and    *)
(* seeks that the underlying stream still accepts (negative: any number).  *)
(* ok turns FALSE when a call has returned false: the serialiser returns   *)
(* at that point, so no later call acts on the stream.                     *)
(***************************************************************************)
BytesU16(v) == << (v \div 256) % 256, v % 256 >>

BytesU32(v) == << (v \div 16777216) % 256, (v \div 65536) % 256, (v \div 256) % 256, v % 256 >>

\* the sum modulo 2^32 of two 32-bit numbers, each <<high half, low half>>
Add32(a, b) ==
  << (a[1] + b[1] + (a[2] + b[2]) \div UINT16) % UINT16, (a[2] + b[2]) % UINT16 >>

\* the sum of the n 16-bit values at first, first + 4, first + 8, ...
RECURSIVE WordSum(_, _, _)
WordSum(bytes, first, n) ==
  IF n = 0 THEN 0
  ELSE IF n = 1 THEN U16At(bytes, first)
  ELSE WordSum(bytes, first, n \div 2) + WordSum(bytes, first + 4 * (n \div 2), n - n \div 2)

\* the checksum state after `bytes`: the hanging bytes and `bytes` make
\* 32-bit big-endian words, which are added, and the bytes of a word not
\* yet complete hang
ChecksumAdd(cs, bytes) ==
  LET all == cs.chksum_buffer \o bytes
      words == Len(all) \div 4
      high == WordSum(all, 0, words)
      low == WordSum(all, 2, words)
  IN [chksum |-> Add32(cs.chksum, << (high + low \div UINT16) % UINT16, low % UINT16 >>),
      chksum_buffer |-> SubSeq(all, 4 * words + 1, Len(all))]

ChecksumState(s) == [chksum |-> s.chksum, chksum_buffer |-> s.chksum_buffer]

\* buf with bytes written at pos
Overwrite(buf, pos, bytes) ==
  [ k \in 1 .. (IF pos + Len(bytes) > Len(buf) THEN pos + Len(bytes) ELSE Len(buf)) |->
      IF k > pos /\ k <= pos + Len(bytes) THEN bytes[k - pos]
      ELSE IF k <= Len(buf) THEN buf[k]
      ELSE 0 ]

Write(s, bytes) ==
  IF ~s.ok THEN s
  ELSE IF s.fuel = 0 THEN [s EXCEPT !.ok = FALSE]
  ELSE LET cs == ChecksumAdd(ChecksumState(s), bytes)
       IN [s EXCEPT !.buf = Overwrite(s.buf, s.pos, bytes),
                    !.pos = s.pos + Len(bytes),
                    !.chksum = cs.chksum,
                    !.chksum_buffer = cs.chksum_buffer,
                    !.fuel = IF s.fuel > 0 THEN s.fuel - 1 ELSE s.fuel]

WriteU16(s, v) == Write(s, BytesU16(v))

WriteU32(s, v) == Write(s, BytesU32(v))

Pad(s, bytes) == Write(s, [k \in 1 .. bytes |-> 0])

Seek(s, position) ==
  IF ~s.ok THEN s
  ELSE IF s.fuel = 0 THEN [s EXCEPT !.ok = FALSE]
  ELSE [s EXCEPT !.pos = position,
                 !.fuel = IF s.fuel > 0 THEN s.fuel - 1 ELSE s.fuel]

ResetChecksum(s) ==
  IF ~s.ok THEN s ELSE [s EXCEPT !.chksum = <<0, 0>>, !.chksum_buffer = <<>>]

\* the saved sum is added to the sum of what was written since the reset,
\* and the saved hanging bytes come back
RestoreChecksum(s, saved) ==
  IF ~s.ok THEN s
  ELSE [s EXCEPT !.chksum = Add32(s.chksum, saved.chksum),
                 !.chksum_buffer = saved.chksum_buffer]

(***************************************************************************)
(* ots_cmap_serialise.  d is the buffer that the opaque slices of the      *)
(* parsed cmap point into.                                                 *)
(***************************************************************************)
Bool2Unsigned(b) == IF b THEN 1 ELSE 0

\* have_0514 ... have_31013
Have0514(cmap) == cmap.subtable_0_5_14_data # NULL

Have100(cmap) == Len(cmap.subtable_1_0_0) # 0

Have304(cmap) == cmap.subtable_3_0_4_data # NULL

\* have_314 that does not look at have_304
Have314Alone(cmap) == cmap.subtable_3_1_4_data # NULL

\* "MS Symbol and MS Unicode tables should not co-exist"
Have314(cmap) == (~Have304(cmap)) /\ cmap.subtable_3_1_4_data # NULL

Have31012(cmap) == Len(cmap.subtable_3_10_12) # 0

Have31013(cmap) == Len(cmap.subtable_3_10_13) # 0

NumSubtables(cmap) ==
  Bool2Unsigned(Have0514(cmap)) + Bool2Unsigned(Have100(cmap))
  + Bool2Unsigned(Have304(cmap)) + Bool2Unsigned(Have314(cmap))
  + Bool2Unsigned(Have31012(cmap)) + Bool2Unsigned(Have31013(cmap))

\* the local variables of ots_cmap_serialise, with the stream
SerialiseLocals(stream) ==
  [ out |-> stream, table_start |-> stream.pos, record_offset |-> 0,
    offset_100 |-> 0, offset_304 |-> 0, offset_314 |-> 0, offset_31012 |-> 0,
    offset_31013 |-> 0, offset_0514 |-> 0, table_end |-> 0, saved_checksum |-> <<>> ]

\* the version and the number of subtables
WriteTableHeader(v, cmap) ==
  [v EXCEPT !.out = WriteU16(WriteU16(v.out, 0), NumSubtables(cmap))]

\* the room for the table of offsets
PadRecords(v, cmap) ==
  [v EXCEPT !.record_offset = v.out.pos,
            !.out = Pad(v.out, NumSubtables(cmap) * 8)]

\* the first kFormat0ArraySize elements of subtable_1_0_0 (what lies behind
\* a shorter vector is not modelled: 0)
Format0Bytes(glyphs) ==
  [ k \in 1 .. kFormat0ArraySize |-> IF k <= Len(glyphs) THEN glyphs[k] ELSE 0 ]

Write100(v, cmap) ==
  [v EXCEPT !.offset_100 = v.out.pos,
            !.out = IF Have100(cmap)
                    THEN Write(WriteU16(WriteU16(WriteU16(v.out, 0), 6 + kFormat0ArraySize), 0),
                               Format0Bytes(cmap.subtable_1_0_0))
                    ELSE v.out]

Write304(v, cmap, d) ==
  [v EXCEPT !.offset_304 = v.out.pos,
            !.out = IF Have304(cmap)
                    THEN Write(v.out, Slice(d, cmap.subtable_3_0_4_data,
                                            cmap.subtable_3_0_4_length))
                    ELSE v.out]

Write314(v, cmap, d) ==
  [v EXCEPT !.offset_314 = v.out.pos,
            !.out = IF Have314(cmap)
                    THEN Write(v.out, Slice(d, cmap.subtable_3_1_4_data,
                                            cmap.subtable_3_1_4_length))
                    ELSE v.out]

\* the groups from index n (0-based) on
RECURSIVE WriteGroupsFrom(_, _, _)
WriteGroupsFrom(s, groups, n) ==
  IF ~(n < Len(groups)) THEN s
  ELSE WriteGroupsFrom(WriteU32(WriteU32(WriteU32(s, groups[n + 1].start_range),
                                         groups[n + 1].end_range),
                                groups[n + 1].start_glyph_id), groups, n + 1)

\* the body of a format 12 or 13 subtable: header and groups
WriteGroups(s, format, length, groups) ==
  WriteGroupsFrom(WriteU32(WriteU32(WriteU32(WriteU16(WriteU16(s, format), 0), length), 0),
                           Len(groups)), groups, 0)

\* the lengths that the format 12 and the format 13 header declare
Format12Length(num_groups) == num_groups * 12 + 16

Format13Length(num_groups) == num_groups * 12 + 14

Write31012(v, cmap) ==
  [v EXCEPT !.offset_31012 = v.out.pos,
            !.out = IF Have31012(cmap)
                    THEN WriteGroups(v.out, 12, Format12Length(Len(cmap.subtable_3_10_12)),
                                     cmap.subtable_3_10_12)
                    ELSE v.out]

Write31013(v, cmap) ==
  [v EXCEPT !.offset_31013 = v.out.pos,
            !.out = IF Have31013(cmap)
                    THEN WriteGroups(v.out, 13, Format13Length(Len(cmap.subtable_3_10_13)),
                                     cmap.subtable_3_10_13)
                    ELSE v.out]

Write0514(v, cmap, d) ==
  [v EXCEPT !.offset_0514 = v.out.pos,
            !.out = IF Have0514(cmap)
                    THEN Write(v.out, Slice(d, cmap.subtable_0_5_14_data,
                                            cmap.subtable_0_5_14_length))
                    ELSE v.out]

\* the subtable bodies, in the order of the code
WriteBodies(v, cmap, d) ==
  Write0514(Write31013(Write31012(Write314(Write304(Write100(v, cmap), cmap, d), cmap, d),
                                  cmap), cmap), cmap, d)

\* SaveChecksumState, ResetChecksum and the seek back to the table of
\* offsets; saved_checksum is <<>> while the local variable does not exist
SaveAndSeekBack(v) ==
  [v EXCEPT !.table_end = v.out.pos,
            !.saved_checksum = IF v.out.ok THEN <<ChecksumState(v.out)>> ELSE <<>>,
            !.out = Seek(ResetChecksum(v.out), v.record_offset)]

\* the position in the stream instead of the offset in the table
RecordOffsetInStream(offset, start) == offset

\* the offset that a record holds for a body written at `offset`
RecordOffset(offset, start) == offset - start

\* one record of the table of offsets, when the subtable is there
WriteRecord(s, have, platform, encoding, offset) ==
  IF have THEN WriteU32(WriteU16(WriteU16(s, platform), encoding), offset) ELSE s

\* the table of offsets
WriteRecords(v, cmap) ==
  [v EXCEPT !.out =
     WriteRecord(
       WriteRecord(
         WriteRecord(
           WriteRecord(
             WriteRecord(
               WriteRecord(v.out, Have0514(cmap), 0, 5,
                           RecordOffset(v.offset_0514, v.table_start)),
               Have100(cmap), 1, 0, RecordOffset(v.offset_100, v.table_start)),
             Have304(cmap), 3, 0, RecordOffset(v.offset_304, v.table_start)),
           Have314(cmap), 3, 1, RecordOffset(v.offset_314, v.table_start)),
         Have31012(cmap), 3, 10, RecordOffset(v.offset_31012, v.table_start)),
       Have31013(cmap), 3, 10, RecordOffset(v.offset_31013, v.table_start))]

\* the seek to the end of the table and RestoreChecksum
SeekEndAndRestore(v) ==
  [v EXCEPT !.out = IF (Seek(v.out, v.table_end)).ok
                    THEN RestoreChecksum(Seek(v.out, v.table_end), v.saved_checksum[1])
                    ELSE Seek(v.out, v.table_end)]

\* what ots_cmap_serialise returns and leaves behind
SerialiseResult(v) ==
  [ ok |-> v.out.ok, out |-> [v.out EXCEPT !.ok = TRUE],
    table_start |-> v.table_start, saved_checksum |-> v.saved_checksum ]

ots_cmap_serialise(stream, f, d) ==
  IF ~Have304(CMAP(f)) /\ ~Have314(CMAP(f))
  THEN [ok |-> FALSE, out |-> stream, table_start |-> stream.pos, saved_checksum |-> <<>>]
  ELSE SerialiseResult(
         SeekEndAndRestore(
           WriteRecords(
             SaveAndSeekBack(
               WriteBodies(
                 PadRecords(
                   WriteTableHeader(SerialiseLocals(stream), CMAP(f)),
                   CMAP(f)),
                 CMAP(f), d)),
             CMAP(f))))

(***************************************************************************)
(* The inputs: cmap tables as bytes.  A table is built from a list of      *)
(* entries [platform, encoding, bytes, shared]: the directory, then the    *)
(* bytes of each entry in turn; an entry that is `shared` has the offset   *)
(* of the entry before it and adds no bytes.                               *)
(***************************************************************************)
\* bounds of the inputs
MaxSegs == 3
MaxGroups == 2
MaxStubs == 2
MaxFuel == 8

BytesU24(v) == << (v \div 65536) % 256, (v \div 256) % 256, v % 256 >>

RECURSIVE Concat(_)
Concat(seqs) == IF seqs = <<>> THEN <<>> ELSE Head(seqs) \o Concat(Tail(seqs))

\* the offset of entry k: the directory, then the bytes of the entries
\* before it that are not shared
RECURSIVE EntryOffset(_, _)
EntryOffset(entries, k) ==
  IF k = 1 THEN 4 + 8 * Len(entries)
  ELSE IF entries[k].shared THEN EntryOffset(entries, k - 1)
  ELSE LET RECURSIVE Owner(_)
           Owner(m) == IF entries[m].shared /\ m > 1 THEN Owner(m - 1) ELSE m
       IN EntryOffset(entries, k - 1) + Len(entries[Owner(k - 1)].bytes)

Table(entries) ==
  BytesU16(0) \o BytesU16(Len(entries))
  \o Concat([ k \in 1 .. Len(entries) |->
              BytesU16(entries[k].platform) \o BytesU16(entries[k].encoding)
              \o BytesU32(EntryOffset(entries, k)) ])
  \o Concat([ k \in 1 .. Len(entries) |->
              IF entries[k].shared /\ k > 1 THEN <<>> ELSE entries[k].bytes ])

Entry(platform, encoding, bytes) ==
  [platform |-> platform, encoding |-> encoding, bytes |-> bytes, shared |-> FALSE]

\* a format 4 subtable of the given segments [start, end, delta, range_offset]
\* and glyph id array, declaring a length of `cut` bytes less than it has
Format4(segs, glyph_ids, cut) ==
  LET segcount == Len(segs)
      search_range == 2 * 2 ^ Log2Segcount(segcount, 0)
  IN BytesU16(4) \o BytesU16(16 + 8 * segcount + 2 * Len(glyph_ids) - cut) \o BytesU16(0)
     \o BytesU16(2 * segcount) \o BytesU16(search_range)
     \o BytesU16(Log2Segcount(segcount, 0)) \o BytesU16(2 * segcount - search_range)
     \o Concat([ k \in 1 .. segcount |-> BytesU16(segs[k].end) ])
     \o BytesU16(0)
     \o Concat([ k \in 1 .. segcount |-> BytesU16(segs[k].start) ])
     \o Concat([ k \in 1 .. segcount |-> BytesU16(segs[k].delta) ])
     \o Concat([ k \in 1 .. segcount |-> BytesU16(segs[k].range_offset) ])
     \o Concat([ k \in 1 .. Len(glyph_ids) |-> BytesU16(glyph_ids[k]) ])

\* a format 12 subtable (16 bytes, then the groups) declaring `extra` groups
\* more than it holds
Format12(groups, extra) ==
  BytesU16(12) \o BytesU16(0) \o BytesU32(16 + 12 * Len(groups)) \o BytesU32(0)
  \o BytesU32(Len(groups) + extra)
  \o Concat([ k \in 1 .. Len(groups) |->
              BytesU32(groups[k][1]) \o BytesU32(groups[k][2]) \o BytesU32(groups[k][3]) ])

\* a format 13 subtable as Parse31013 reads it: a 16-bit language, then the
\* number of groups
Format13(groups, extra) ==
  BytesU16(13) \o BytesU16(0) \o BytesU32(14 + 12 * Len(groups)) \o BytesU16(0)
  \o BytesU32(Len(groups) + extra)
  \o Concat([ k \in 1 .. Len(groups) |->
              BytesU32(groups[k][1]) \o BytesU32(groups[k][2]) \o BytesU32(groups[k][3]) ])

\* a format 14 subtable of one variation selector record with a default UVS
\* table of one range and a non-default UVS table of one mapping to `glyph`
Format14(var_selector, glyph) ==
  BytesU16(14) \o BytesU32(38)
  \o BytesU32(1) \o BytesU24(var_selector) \o BytesU32(21) \o BytesU32(29)
  \o BytesU32(1) \o BytesU24(12354) \o <<1>>
  \o BytesU32(1) \o BytesU24(12356) \o BytesU16(glyph)

\* a format 0 subtable declaring `length` bytes
Format0(length, language) ==
  BytesU16(0) \o BytesU16(length) \o BytesU16(language)
  \o [ k \in 1 .. kFormat0ArraySize |-> k % 251 ]

\* the 4 bytes of a subtable header that no parser reads: a format and a length
Stub(format, length) == BytesU16(format) \o BytesU16(length)

\* the number of glyphs of the fonts, and the OS/2 table before the parse
NumGlyphsChoices == {3}

InitialOS2 == [first_char_index |-> 64, last_char_index |-> 64]

\* ---- format 4 inputs ----
\* the kinds of segment that is not the last; the segment in place k (1-based)
\* of segcount covers the two code points 32 + 16 k and the next
SegKinds ==
  {"delta", "delta_bad", "array0", "array1", "array3", "array4", "array_far", "odd", "term"}

\* the kinds of the first segment, and of the segments from the third on
SegKindsFirst == {"delta", "delta_bad", "array1", "array_far", "odd"}

SegKindsFar == {"delta", "array0"}

LastKinds == {"term", "term_bad", "term_odd", "term_odd_bad", "open"}

GlyphIdArray == <<1, 2, 5, 1, 0>>

ArrayIndex(kind) ==
  CASE kind = "array0" -> 0 [] kind = "array1" -> 1 [] kind = "array3" -> 3 [] OTHER -> 4

Seg(kind, k, segcount) ==
  LET start == 32 + 16 * k
  IN CASE kind = "delta" ->
            [start |-> start, end |-> start + 1, delta |-> UINT16 - start, range_offset |-> 0]
       [] kind = "delta_bad" ->
            [start |-> start, end |-> start + 1, delta |-> 0, range_offset |-> 0]
       [] kind = "odd" ->
            [start |-> start, end |-> start + 1, delta |-> UINT16 - start, range_offset |-> 1]
       [] kind = "term" ->
            [start |-> 65535, end |-> 65535, delta |-> 1, range_offset |-> 0]
       [] kind = "term_bad" ->
            [start |-> 65535, end |-> 65535, delta |-> 0, range_offset |-> 0]
       [] kind = "term_odd" ->
            [start |-> 65535, end |-> 65535, delta |-> 1, range_offset |-> 65535]
       [] kind = "term_odd_bad" ->
            [start |-> 65535, end |-> 65535, delta |-> 0, range_offset |-> 65535]
       [] kind = "open" ->
            [start |-> 4096, end |-> 4097, delta |-> UINT16 - 4096, range_offset |-> 0]
       [] kind = "array_far" ->
            [start |-> start, end |-> start + 1, delta |-> 0, range_offset |-> 65534]
       [] OTHER ->
            [start |-> start, end |-> start + 1, delta |-> 0,
             range_offset |-> 2 * (segcount - (k - 1)) + 2 * ArrayIndex(kind)]

\* the lists of kinds: a first kind, any kind in the second place, then the
\* far kinds, then a last kind
KindListOk(kinds) ==
  /\ Len(kinds) > 1 => kinds[1] \in SegKindsFirst
  /\ \A k \in 3 .. Len(kinds) - 1 : kinds[k] \in SegKindsFar

KindLists ==
  { kinds \in UNION { { front \o last : front \in [1 .. n -> SegKinds],
                                        last \in { <<l>> : l \in LastKinds } }
                      : n \in 0 .. MaxSegs - 1 } : KindListOk(kinds) }

Format4Of(kinds, cut) ==
  Format4([ k \in 1 .. Len(kinds) |-> Seg(kinds[k], k, Len(kinds)) ], GlyphIdArray, cut)

\* the format 4 tables: every list of kinds in a record (3, 1); the lists
\* that use the end of the glyph id array once more with a length cut by
\* 1; the lists of at most two kinds in the other records of format 4
Format4RowsShort == { <<3, 0>>, <<0, 0>>, <<0, 3>> }

Format4Inputs ==
  { Table(<< Entry(3, 1, Format4Of(kinds, 0)) >>) : kinds \in KindLists }
  \cup
  { Table(<< Entry(3, 1, Format4Of(kinds, 1)) >>) :
      kinds \in { ks \in KindLists : \E k \in 1 .. Len(ks) : ks[k] \in {"array3", "array4"} } }
  \cup
  { Table(<< Entry(row[1], row[2], Format4Of(kinds, 0)) >>) :
      kinds \in { ks \in KindLists : Len(ks) <= 2 }, row \in Format4RowsShort }

\* ---- format 12 and 13 inputs ----
GoodFormat4 == Format4(<< Seg("term", 1, 1) >>, <<>>, 0)

CodePoints == {32, 34, 55295, 55296, 57343, 57344, 1114111, 1114112}

GlyphIds == {0, 1, 3, 65536}

OneGroup == { << <<s, e, g>> >> : s \in CodePoints, e \in CodePoints, g \in GlyphIds }

SomeGroups == { <<32, 33, 0>>, <<34, 34, 2>>, <<33, 35, 0>>, <<57344, 57345, 1>>, <<48, 47, 0>> }

ManyGroups ==
  UNION { [1 .. n -> SomeGroups] : n \in 2 .. MaxGroups }

GroupInputs ==
  { Table(<< Entry(3, 1, GoodFormat4), Entry(3, 10, Format12(groups, 0)) >>) :
      groups \in OneGroup \cup ManyGroups }
  \cup
  { Table(<< Entry(0, 3, Format12(groups, 0)), Entry(3, 1, GoodFormat4) >>) :
      groups \in ManyGroups }
  \cup
  { Table(<< Entry(3, 1, GoodFormat4), Entry(3, 10, Format13(groups, 0)) >>) :
      groups \in OneGroup \cup ManyGroups }
  \cup
  { Table(<< Entry(3, 1, GoodFormat4), Entry(3, 10, Format12(groups, 1)) >>) :
      groups \in ManyGroups }
  \cup
  { Table(<< Entry(3, 1, GoodFormat4), Entry(3, 10, Format13(groups, 1)) >>) :
      groups \in ManyGroups }

\* ---- directories of several subtables ----
\* no entry, or one of the entries of S
Opt(S) == { <<>> } \cup { <<e>> : e \in S }

\* a second format 4 subtable that Parse3x4 accepts, and one that it rejects
GoodFormat4Two == Format4Of(<<"delta", "array0", "term">>, 0)

BadFormat4 == Format4Of(<<"delta", "open">>, 0)

GoodGroups == << <<32, 33, 0>>, <<34, 34, 2>> >>

BadGroups == << <<32, 33, 0>>, <<34, 35, 3>> >>

DirInputs ==
  { Table(a \o b \o c \o d \o e \o f) :
      a \in Opt({ Entry(0, 3, Format12(<< <<48, 49, 1>> >>, 0)) }),
      b \in Opt({ Entry(0, 5, Format14(917760, 1)), Entry(0, 5, Format14(917760, 3)) }),
      c \in Opt({ Entry(1, 0, Format0(6 + kFormat0ArraySize, 0)), Entry(1, 0, Format0(100, 7)) }),
      d \in Opt({ Entry(3, 0, GoodFormat4) }),
      e \in Opt({ Entry(3, 1, GoodFormat4Two), Entry(3, 1, BadFormat4) }),
      f \in Opt({ Entry(3, 10, Format12(GoodGroups, 0)), Entry(3, 10, Format13(GoodGroups, 0)),
                  Entry(3, 10, Format12(BadGroups, 0)) }) }

\* a format 12 and a format 13 subtable in one table, next to the surrogates
MixedInputs ==
  { Table(<< Entry(0, 3, Format12(<< <<55294, 55295, 0>>, <<57344, 57345, 0>> >>, 0)),
             Entry(3, 1, GoodFormat4),
             Entry(3, 10, Format13(<< g >>, 0)) >>) :
      g \in { <<55296, 57343, 1>>, <<32, 57344, 2>>, <<1114111, 1114112, 0>> } }

\* ---- groups that only a font of many glyphs can hold ----
LargeNumGlyphs == UINT16 - 1

WideGroups ==
  { << <<32, 57344, 0>> >>, << <<32, 55295, 0>> >>, << <<57344, 65000, 1>> >>,
    << <<50000, 55296, 0>> >>, << <<57343, 60000, 0>> >>, << <<32, 65566, 0>> >>,
    << <<32, 65567, 0>> >>, << <<32, 65566, 1>> >> }

WideInputs ==
  { Table(<< Entry(3, 1, GoodFormat4), Entry(3, 10, Format12(groups, 0)) >>) :
      groups \in WideGroups }
  \cup
  { Table(<< Entry(3, 1, GoodFormat4), Entry(3, 10, Format13(groups, 0)) >>) :
      groups \in WideGroups }

\* ---- directories whose records share or overlap their extents ----
\* records (2, 0), (2, 1), ... that no parser is dispatched for, each
\* pointing to one of three 4-byte cells (format 4 and a length) that lie
\* one behind the other in front of a 3-1-4 subtable
StubLengths == {0, 4, 8}

StubCells == [0 .. 2 -> StubLengths]

StubTable(cells, picks) ==
  BytesU16(0) \o BytesU16(Len(picks) + 1)
  \o Concat([ k \in 1 .. Len(picks) |->
               BytesU16(2) \o BytesU16(k - 1)
               \o BytesU32(4 + 8 * (Len(picks) + 1) + 4 * picks[k]) ])
  \o BytesU16(3) \o BytesU16(1) \o BytesU32(4 + 8 * (Len(picks) + 1) + 12)
  \o Stub(4, cells[0]) \o Stub(4, cells[1]) \o Stub(4, cells[2])
  \o GoodFormat4

StubInputs ==
  { StubTable(cells, picks) :
      cells \in StubCells, picks \in UNION { [1 .. n -> 0 .. 2] : n \in 1 .. MaxStubs } }

\* two records of one subtable: the Unicode and the MS record share the data
SharedInputs ==
  { Table(<< Entry(0, 3, GoodFormat4Two),
             [Entry(3, 1, <<>>) EXCEPT !.shared = TRUE] >>),
    Table(<< Entry(0, 3, Format12(GoodGroups, 0)),
             Entry(3, 1, GoodFormat4),
             Entry(3, 10, Format12(GoodGroups, 0)) >>) }

\* ---- directories whose records fill the same slot ----
GoodFormat4Three == Format4Of(<<"delta", "term">>, 0)

AliasInputs ==
  { Table(a \o b \o c \o f) :
      a \in Opt({ Entry(0, 0, GoodFormat4) }),
      b \in Opt({ Entry(0, 3, GoodFormat4Two), Entry(0, 3, Format12(<< <<48, 49, 1>> >>, 0)) }),
      c \in Opt({ Entry(3, 1, GoodFormat4Three) }),
      f \in Opt({ Entry(3, 10, Format12(GoodGroups, 0)) }) }

\* ---- OS/2 tables with other first and last character indices ----
OS2Choices ==
  { [first_char_index |-> 100, last_char_index |-> 65535],
    [first_char_index |-> 65535, last_char_index |-> 50],
    [first_char_index |-> 10, last_char_index |-> 90] }

\* a subtable whose last segment begins at 64 and ends at 0xFFFF; a font of
\* many glyphs can hold it
TailFormat4 ==
  Format4(<< Seg("delta", 1, 2),
             [start |-> 64, end |-> 65535, delta |-> UINT16 - 64, range_offset |-> 0] >>,
          <<>>, 0)

OS2Fonts ==
  { [data |-> Table(<< Entry(3, 1, Format4Of(kinds, 0)) >>),
     maxp |-> << [num_glyphs |-> 3] >>, os2 |-> <<os2>>] :
      kinds \in { <<"delta", "delta", "term">>, <<"delta", "term", "term">>, <<"term">> },
      os2 \in OS2Choices }
  \cup
  { [data |-> Table(<< Entry(3, 1, TailFormat4) >>),
     maxp |-> << [num_glyphs |-> LargeNumGlyphs] >>, os2 |-> <<os2>>] :
      os2 \in OS2Choices \cup {InitialOS2} }

\* ---- format 14 inputs ----
\* a format 14 subtable of two variation selector records: the first with
\* the default UVS table at 32 (one range) and the non-default UVS table at
\* 40 (declaring num_uvs_mappings mappings, holding one, to `glyph`), the
\* second with the offsets `offsets`; 4 zero bytes lie behind the tables, and
\* the length declared is shorter by `cut`
Format14Two(var_selectors, offsets, num_uvs_mappings, glyph, cut) ==
  BytesU16(14) \o BytesU32(53 - cut) \o BytesU32(2)
  \o BytesU24(var_selectors[1]) \o BytesU32(32) \o BytesU32(40)
  \o BytesU24(var_selectors[2]) \o BytesU32(offsets[1]) \o BytesU32(offsets[2])
  \o BytesU32(1) \o BytesU24(12354) \o <<1>>
  \o BytesU32(num_uvs_mappings) \o BytesU24(12356) \o BytesU16(glyph)
  \o BytesU32(0)

VarSelectorPairs ==
  { <<917760, 917761>>, <<917761, 917760>>, <<917760, 917760>>, <<0, 917760>>,
    <<917760, 1114111>>, <<917760, 1114112>> }

UVSOffsets == { <<0, 0>>, <<32, 40>>, <<49, 0>>, <<0, 49>>, <<50, 0>>, <<0, 50>> }

Format14Inputs ==
  { Table(<< Entry(0, 5, Format14Two(var_selectors, offsets, 1, 2, 0)),
             Entry(3, 1, GoodFormat4) >>) :
      var_selectors \in VarSelectorPairs, offsets \in UVSOffsets }
  \cup
  { Table(<< Entry(0, 5, Format14Two(<<917760, 917761>>, offsets, num_uvs_mappings, glyph, cut)),
             Entry(3, 1, GoodFormat4) >>) :
      offsets \in { <<0, 0>>, <<32, 40>> }, num_uvs_mappings \in {1, 2}, glyph \in {2, 3},
      cut \in {0, 4, 5} }

\* ---- tables that the checks of the directory reject ----
HeaderInputs ==
  { <<>>, <<0, 0, 0>>, BytesU16(1) \o BytesU16(1), BytesU16(0) \o BytesU16(0),
    BytesU16(0) \o BytesU16(2) \o BytesU16(3) \o BytesU16(1) \o BytesU32(20),
    BytesU16(0) \o BytesU16(1) \o BytesU16(3) \o BytesU16(1) \o BytesU32(8) \o GoodFormat4,
    BytesU16(0) \o BytesU16(1) \o BytesU16(3) \o BytesU16(1) \o BytesU32(36) \o GoodFormat4,
    BytesU16(0) \o BytesU16(1) \o BytesU16(3) \o BytesU16(1) \o BytesU32(12) \o <<0>>,
    BytesU16(0) \o BytesU16(1) \o BytesU16(3) \o BytesU16(1) \o BytesU32(12) \o <<0, 4, 0>>,
    BytesU16(0) \o BytesU16(1) \o BytesU16(3) \o BytesU16(1) \o BytesU32(12)
      \o BytesU16(12) \o BytesU16(0) \o <<0, 0>>,
    BytesU16(0) \o BytesU16(1) \o BytesU16(3) \o BytesU16(1) \o BytesU32(12)
      \o BytesU16(14) \o <<0, 0, 0>>,
    BytesU16(0) \o BytesU16(1) \o BytesU16(3) \o BytesU16(1) \o BytesU32(12)
      \o BytesU16(4) \o BytesU16(26) \o Tail(Tail(Tail(Tail(GoodFormat4)))),
    BytesU16(0) \o BytesU16(1) \o BytesU16(3) \o BytesU16(1) \o BytesU32(12)
      \o BytesU16(12) \o BytesU16(0) \o BytesU32(kOneGigabyte + 1),
    BytesU16(0) \o BytesU16(1) \o BytesU16(3) \o BytesU16(1) \o BytesU32(kOneGigabyte + 1)
      \o GoodFormat4,
    Table(<< Entry(3, 1, GoodFormat4), Entry(3, 0, GoodFormat4Two) >>),
    Table(<< Entry(3, 1, GoodFormat4), Entry(3, 1, GoodFormat4Two) >>),
    Table(<< Entry(3, 1, GoodFormat4), Entry(0, 3, GoodFormat4Two) >>),
    Table(<< Entry(1, 0, Format0(6 + kFormat0ArraySize, 0)),
             Entry(1, 0, Format0(6 + kFormat0ArraySize, 0)),
             Entry(3, 1, GoodFormat4) >>),
    Table(<< Entry(3, 1, Stub(6, 0)) >>),
    Table(<< Entry(1, 0, Format0(6 + kFormat0ArraySize, 0)) >>) }

Inputs ==
  Format4Inputs \cup GroupInputs \cup DirInputs \cup MixedInputs \cup StubInputs
  \cup SharedInputs \cup AliasInputs \cup Format14Inputs \cup HeaderInputs

\* the fonts: a cmap table, and the maxp and the OS/2 table of the font when
\* it has them
Font(d, num_glyphs) ==
  [data |-> d, maxp |-> << [num_glyphs |-> num_glyphs] >>, os2 |-> <<InitialOS2>>]

Fonts ==
  { Font(d, n) : d \in Inputs, n \in NumGlyphsChoices }
  \cup
  { Font(d, LargeNumGlyphs) : d \in WideInputs }
  \cup
  OS2Fonts
  \cup
  { [data |-> Table(<< Entry(3, 1, GoodFormat4) >>), maxp |-> maxp, os2 |-> os2] :
      maxp \in { <<>>, << [num_glyphs |-> 3] >> }, os2 \in { <<>>, <<InitialOS2>> } }

(***************************************************************************)
(* The state machine.  pc is the place of the run: "parse" before          *)
(* ots_cmap_parse, "dispatch" in its dispatch loop (i is the loop index),  *)
(* "parsed" once it has returned parse_ok, "serialised" once               *)
(* ots_cmap_serialise has returned serialise_ok, "reparsed" once the       *)
(* emitted table has been parsed into file2, "freed" after ots_cmap_free.  *)
(***************************************************************************)
NoStream == [buf |-> <<>>, pos |-> 0, chksum |-> <<0, 0>>, chksum_buffer |-> <<>>,
             fuel |-> -1, ok |-> TRUE]

Init ==
  /\ \E font \in Fonts :
       /\ data = font.data
       /\ file = [maxp |-> font.maxp, os2 |-> font.os2, cmap |-> <<>>]
  /\ pc = "parse"
  /\ parse_ok = FALSE
  /\ subtable_headers = <<>>
  /\ i = 0
  /\ out = NoStream
  /\ table_start = 0
  /\ serialise_ok = FALSE
  /\ saved_checksum = <<>>
  /\ file2 = <<>>

\* ots_cmap_parse, from its start to the dispatch loop
ParseHeaders ==
  /\ pc = "parse"
  /\ LET dir == ParseDirectory(file, data)
     IN /\ file' = dir.file
        /\ subtable_headers' = dir.headers
        /\ IF dir.ok
           THEN pc' = "dispatch" /\ UNCHANGED parse_ok
           ELSE pc' = "parsed" /\ parse_ok' = FALSE
  /\ UNCHANGED <<data, i, out, table_start, serialise_ok, saved_checksum, file2>>

\* one pass of the dispatch loop
Dispatch ==
  /\ pc = "dispatch"
  /\ i < Len(subtable_headers)
  /\ LET r == DispatchRecord(file, subtable_headers[i + 1], data, file.maxp[1].num_glyphs)
     IN /\ file' = r.file
        /\ IF r.ok
           THEN i' = i + 1 /\ UNCHANGED <<pc, parse_ok>>
           ELSE pc' = "parsed" /\ parse_ok' = FALSE /\ UNCHANGED i
  /\ UNCHANGED <<data, subtable_headers, out, table_start, serialise_ok, saved_checksum, file2>>

\* the end of the dispatch loop: ots_cmap_parse returns true
ParseReturn ==
  /\ pc = "dispatch"
  /\ ~(i < Len(subtable_headers))
  /\ pc' = "parsed"
  /\ parse_ok' = TRUE
  /\ UNCHANGED <<data, file, subtable_headers, i, out, table_start, serialise_ok,
                 saved_checksum, file2>>

\* the streams handed to the serialiser: at position 0 or behind 12 bytes
\* of an earlier table, accepting any number of calls or only `fuel` calls
Streams ==
  { [NoStream EXCEPT !.buf = [k \in 1 .. start |-> 170], !.pos = start] : start \in {0, 12} }
  \cup
  { [NoStream EXCEPT !.buf = [k \in 1 .. 12 |-> 170], !.pos = 12, !.fuel = fuel] :
      fuel \in 0 .. MaxFuel }

\* ots_cmap_serialise, after a parse that succeeded
Serialise ==
  /\ pc = "parsed"
  /\ parse_ok
  /\ \E stream \in Streams :
       LET r == ots_cmap_serialise(stream, file, data)
       IN /\ out' = r.out
          /\ table_start' = r.table_start
          /\ serialise_ok' = r.ok
          /\ saved_checksum' = r.saved_checksum
  /\ pc' = "serialised"
  /\ UNCHANGED <<data, file, parse_ok, subtable_headers, i, file2>>

\* the table that the serialiser wrote
Emitted == SubSeq(out.buf, table_start + 1, Len(out.buf))

\* ots_cmap_parse of the emitted table, into a second font file with the
\* same maxp and OS/2
Reparse ==
  /\ pc = "serialised"
  /\ serialise_ok
  /\ LET r == ots_cmap_parse([file EXCEPT !.cmap = <<>>], Emitted)
     IN file2' = << [ok |-> r.ok, file |-> r.file] >>
  /\ pc' = "reparsed"
  /\ UNCHANGED <<data, file, parse_ok, subtable_headers, i, out, table_start,
                 serialise_ok, saved_checksum>>

\* ots_cmap_free: the OpenTypeCMAP is deleted; file->cmap keeps the stale
\* address, which nothing reads afterwards, and is shown as no object
Free ==
  /\ pc \in {"parsed", "serialised", "reparsed"}
  /\ pc = "parsed" => ~parse_ok
  /\ pc = "serialised" => ~serialise_ok
  /\ file' = [file EXCEPT !.cmap = <<>>]
  /\ pc' = "freed"
  /\ UNCHANGED <<data, parse_ok, subtable_headers, i, out, table_start, serialise_ok,
                 saved_checksum, file2>>

Next == ParseHeaders \/ Dispatch \/ ParseReturn \/ Serialise \/ Reparse \/ Free

Spec == Init /\ [][Next]_vars

(***************************************************************************)
(* Properties.  In every state the records 1 .. i of subtable_headers are  *)
(* the records that the dispatch loop has passed: their subtable parsers   *)
(* have accepted them.                                                     *)
(***************************************************************************)
\* whether the dispatch loop hands the subtable of header h to Parse3x4,
\* to Parse31012, to Parse31013
RowOfParse3x4(h) ==
  /\ h.format = 4
  /\ \/ h.platform = 0 /\ h.encoding \in {0, 3}
     \/ h.platform = 3 /\ h.encoding \in {0, 1}

RowOfParse31012(h) ==
  /\ h.format = 12
  /\ \/ h.platform = 0 /\ h.encoding = 3
     \/ h.platform = 3 /\ h.encoding = 10

RowOfParse31013(h) == h.format = 13 /\ h.platform = 3 /\ h.encoding = 10

NumGlyphs == file.maxp[1].num_glyphs

\* the groups of the format 12 or 13 subtable of header h, as the table
\* holds them; the groups begin at `first`, behind the number of groups
GroupsAt(h, first) ==
  [ n \in 1 .. U32At(data, h.offset + first - 4) |->
    [ start_range |-> U32At(data, h.offset + first + 12 * (n - 1)),
      end_range |-> U32At(data, h.offset + first + 12 * (n - 1) + 4),
      start_glyph_id |-> U32At(data, h.offset + first + 12 * (n - 1) + 8) ] ]

\* the glyph id that a format 4 lookup of code point cp in `range` finds is
\* there and is less than num_glyphs
LookupValid(h, range, cp) ==
  IF range.id_range_offset = 0
  THEN (cp + range.id_delta) % UINT16 < NumGlyphs
  ELSE LET glyph_addr == range.id_range_offset_offset + range.id_range_offset
                         + 2 * (cp - range.start_range)
       IN /\ glyph_addr + 2 <= h.length
          /\ U16At(data, h.offset + glyph_addr) < NumGlyphs

\* C1: in every format 4 subtable that Parse3x4 has accepted, through
\* whichever dispatch row, every code point of every segment, the first one
\* included, looks up a glyph id strictly less than num_glyphs.
C1_EveryCodePointLooksUpAGlyph ==
  \A k \in 1 .. i :
    RowOfParse3x4(subtable_headers[k]) =>
      \A n \in 1 .. Len(F4Ranges(data, subtable_headers[k].offset)) :
        LET range == F4Ranges(data, subtable_headers[k].offset)[n]
        IN \A cp \in range.start_range .. range.end_range :
             LookupValid(subtable_headers[k], range, cp)

\* C3: in every format 12 subtable that Parse31012 has accepted, the last
\* glyph id of the chain of every group, start_glyph_id + (end - start),
\* is strictly less than num_glyphs.
C3_GlyphChainBelowNumGlyphs ==
  \A k \in 1 .. i :
    RowOfParse31012(subtable_headers[k]) =>
      \A n \in 1 .. Len(GroupsAt(subtable_headers[k], 16)) :
        LET group == GroupsAt(subtable_headers[k], 16)[n]
        IN group.start_glyph_id + (group.end_range - group.start_range) < NumGlyphs

\* whether a code point of [start_range, end_range] is a surrogate
CoversSurrogate(group) ==
  /\ group.start_range <= group.end_range
  /\ group.start_range <= 57343
  /\ group.end_range >= 55296

\* C9: no accepted format 12 group covers a code point of [0xD800, 0xDFFF],
\* and both ends of every accepted format 12 or format 13 group are at most
\* 0x10FFFF.
C9_SurrogatesAndUpperLimit ==
  \A k \in 1 .. i :
    /\ RowOfParse31012(subtable_headers[k]) =>
         \A n \in 1 .. Len(GroupsAt(subtable_headers[k], 16)) :
           LET group == GroupsAt(subtable_headers[k], 16)[n]
           IN /\ ~CoversSurrogate(group)
              /\ group.start_range <= 1114111
              /\ group.end_range <= 1114111
    /\ RowOfParse31013(subtable_headers[k]) =>
         \A n \in 1 .. Len(GroupsAt(subtable_headers[k], 14)) :
           LET group == GroupsAt(subtable_headers[k], 14)[n]
           IN /\ group.start_range <= 1114111
              /\ group.end_range <= 1114111

\* an accepted format 12 group that ends right below the surrogates and an
\* accepted format 13 group that covers surrogates, in one table
C9_Witness ==
  /\ \E k \in 1 .. i :
       /\ RowOfParse31012(subtable_headers[k])
       /\ \E n \in 1 .. Len(GroupsAt(subtable_headers[k], 16)) :
            GroupsAt(subtable_headers[k], 16)[n].end_range = 55295
  /\ \E k \in 1 .. i :
       /\ RowOfParse31013(subtable_headers[k])
       /\ \E n \in 1 .. Len(GroupsAt(subtable_headers[k], 14)) :
            CoversSurrogate(GroupsAt(subtable_headers[k], 14)[n])

\* the format 4 records whose segments Parse3x4 can read
Simulated ==
  { k \in 1 .. Len(subtable_headers) :
      /\ RowOfParse3x4(subtable_headers[k])
      /\ F4HeaderOk(data, subtable_headers[k].offset, subtable_headers[k].length) }

\* C10: for every segment that the simulation takes (all but the first) with
\* id_range_offset # 0 and every code point of it, the address of the glyph
\* id is below 2^32 without wrap-around, the two bytes at it are read only
\* when both lie within the length of the subtable, and the subtable is not
\* accepted when they do not.
C10_GlyphReadWithinSubtable ==
  \A k \in Simulated :
    LET h == subtable_headers[k]
    IN \A n \in 2 .. Len(F4Ranges(data, h.offset)) :
         LET range == F4Ranges(data, h.offset)[n]
         IN range.id_range_offset # 0 =>
              \A cp \in range.start_range .. range.end_range :
                /\ GlyphIdOffset(range, cp) \div UINT16 < UINT16
                /\ \A a \in LookupReads(range, cp, h.length) : a >= 0 /\ a < h.length
                /\ LookupReads(range, cp, h.length) = {} => ~(k <= i)

\* an accepted subtable with a simulated segment whose glyph ids are read
\* from the array, the last of them from the last two bytes of the subtable
C10_Witness ==
  \E k \in Simulated :
    /\ k <= i
    /\ \E n \in 2 .. Len(F4Ranges(data, subtable_headers[k].offset)) :
         LET range == F4Ranges(data, subtable_headers[k].offset)[n]
         IN /\ range.id_range_offset # 0
            /\ \E cp \in range.start_range .. range.end_range :
                 subtable_headers[k].length - 1
                   \in LookupReads(range, cp, subtable_headers[k].length)

\* ---- the serialised table ----
Serialised == pc \in {"serialised", "reparsed"} /\ serialise_ok

\* the number of subtables of the emitted header, and record k of the
\* emitted table of offsets
EmittedCount == U16At(Emitted, 2)

EmittedRecord(k) ==
  [ platform |-> U16At(Emitted, 4 + 8 * (k - 1)),
    encoding |-> U16At(Emitted, 4 + 8 * (k - 1) + 2),
    offset |-> U32At(Emitted, 4 + 8 * (k - 1) + 4) ]

\* the subtables of the parsed cmap in the order their bodies are written:
\* whether the slot is populated, the bytes that the body takes, its format,
\* and the place of its record in the table of offsets
Bodies ==
  LET cmap == CMAP(file)
  IN << [platform |-> 1, encoding |-> 0, format |-> 0, place |-> 2,
         populated |-> cmap.subtable_1_0_0 # <<>>,
         size |-> 6 + kFormat0ArraySize],
        [platform |-> 3, encoding |-> 0, format |-> 4, place |-> 3,
         populated |-> cmap.subtable_3_0_4_data # NULL,
         size |-> cmap.subtable_3_0_4_length],
        [platform |-> 3, encoding |-> 1, format |-> 4, place |-> 4,
         populated |-> cmap.subtable_3_1_4_data # NULL,
         size |-> cmap.subtable_3_1_4_length],
        [platform |-> 3, encoding |-> 10, format |-> 12, place |-> 5,
         populated |-> cmap.subtable_3_10_12 # <<>>,
         size |-> 16 + 12 * Len(cmap.subtable_3_10_12)],
        [platform |-> 3, encoding |-> 10, format |-> 13, place |-> 6,
         populated |-> cmap.subtable_3_10_13 # <<>>,
         size |-> 16 + 12 * Len(cmap.subtable_3_10_13)],
        [platform |-> 0, encoding |-> 5, format |-> 14, place |-> 1,
         populated |-> cmap.subtable_0_5_14_data # NULL,
         size |-> cmap.subtable_0_5_14_length] >>

\* the bodies that are to be emitted: the populated ones, but 3,1,4 only
\* when 3,0,4 is not populated
ToEmit == { j \in 1 .. 6 : Bodies[j].populated /\ (j = 3 => ~Bodies[2].populated) }

\* the sum of the sizes of the bodies of `which` that are written before body j
RECURSIVE SizeBefore(_, _)
SizeBefore(which, j) ==
  IF j = 1 THEN 0
  ELSE SizeBefore(which, j - 1) + (IF j - 1 \in which THEN Bodies[j - 1].size ELSE 0)

\* where body j begins in the emitted table, and the index of its record
BodyOffset(j) == 4 + 8 * Cardinality(ToEmit) + SizeBefore(ToEmit, j)

RecordIndex(j) == 1 + Cardinality({ m \in ToEmit : Bodies[m].place < Bodies[j].place })

\* the emitted records of the subtables 3,0,4 and 3,1,4
EmittedMS ==
  { k \in 1 .. EmittedCount :
      EmittedRecord(k).platform = 3 /\ EmittedRecord(k).encoding \in {0, 1} }

\* C4: a table that ots_cmap_serialise emitted with success holds exactly
\* one of the subtables 3,0,4 and 3,1,4, record and body; when the parse
\* populated both slots it is 3,0,4, and neither the count of the header
\* nor the bytes of the table include 3,1,4.
C4_ExactlyOneOf304And314 ==
  Serialised =>
    /\ Cardinality(EmittedMS) = 1
    /\ \A k \in EmittedMS :
         IF EmittedRecord(k).encoding = 0
         THEN /\ Bodies[2].populated
              /\ Slice(Emitted, EmittedRecord(k).offset, Bodies[2].size)
                   = Slice(data, CMAP(file).subtable_3_0_4_data, Bodies[2].size)
         ELSE /\ Bodies[3].populated /\ ~Bodies[2].populated
              /\ Slice(Emitted, EmittedRecord(k).offset, Bodies[3].size)
                   = Slice(data, CMAP(file).subtable_3_1_4_data, Bodies[3].size)
    /\ Bodies[2].populated /\ Bodies[3].populated =>
         /\ \A k \in EmittedMS : EmittedRecord(k).encoding = 0
         /\ EmittedCount = Cardinality({ j \in 1 .. 6 : Bodies[j].populated }) - 1
         /\ Len(Emitted) = 4 + 8 * EmittedCount
                            + SizeBefore({ j \in 1 .. 6 : Bodies[j].populated /\ j # 3 }, 6)
                            + (IF Bodies[6].populated THEN Bodies[6].size ELSE 0)

\* a table emitted for a cmap whose slots 3,0,4 and 3,1,4 are both populated
C4_Witness ==
  Serialised /\ Bodies[2].populated /\ Bodies[3].populated

\* C7: after a successful ots_cmap_serialise the count of the header is the
\* number of emitted bodies, each emitted body has its record, the records
\* stand in the order 0,5,14 / 1,0,0 / 3,0,4 / 3,1,4 / 3,10,12 / 3,10,13,
\* and the offset of each record is the position of the first byte of its
\* body counted from the start of the table.
C7_DirectoryMatchesBodies ==
  Serialised =>
    /\ EmittedCount = Cardinality(ToEmit)
    /\ \A j \in ToEmit :
         /\ EmittedRecord(RecordIndex(j)).platform = Bodies[j].platform
         /\ EmittedRecord(RecordIndex(j)).encoding = Bodies[j].encoding
         /\ EmittedRecord(RecordIndex(j)).offset = BodyOffset(j)
         /\ BodyOffset(j) + Bodies[j].size <= Len(Emitted)
         /\ U16At(Emitted, BodyOffset(j)) = Bodies[j].format
    /\ \A j \in ToEmit : j = 6 => Len(Emitted) = BodyOffset(j) + Bodies[j].size

\* a table of at least three bodies, the body of 0,5,14 among them, emitted
\* into a stream that held bytes before it
C7_Witness ==
  /\ Serialised
  /\ table_start # 0
  /\ Cardinality(ToEmit) >= 3
  /\ 6 \in ToEmit

\* the slots of the two parsed cmaps are populated alike, the group lists
\* are equal and the slices hold the same bytes
Equivalent(cmap, d, cmap2, d2) ==
  /\ cmap2.subtable_1_0_0 = cmap.subtable_1_0_0
  /\ cmap2.subtable_3_10_12 = cmap.subtable_3_10_12
  /\ cmap2.subtable_3_10_13 = cmap.subtable_3_10_13
  /\ (cmap2.subtable_3_0_4_data = NULL) = (cmap.subtable_3_0_4_data = NULL)
  /\ (cmap2.subtable_3_1_4_data = NULL) = (cmap.subtable_3_1_4_data = NULL)
  /\ (cmap2.subtable_0_5_14_data = NULL) = (cmap.subtable_0_5_14_data = NULL)
  /\ cmap.subtable_3_0_4_data # NULL /\ cmap2.subtable_3_0_4_data # NULL =>
       Slice(d2, cmap2.subtable_3_0_4_data, cmap2.subtable_3_0_4_length)
         = Slice(d, cmap.subtable_3_0_4_data, cmap.subtable_3_0_4_length)
  /\ cmap.subtable_3_1_4_data # NULL /\ cmap2.subtable_3_1_4_data # NULL =>
       Slice(d2, cmap2.subtable_3_1_4_data, cmap2.subtable_3_1_4_length)
         = Slice(d, cmap.subtable_3_1_4_data, cmap.subtable_3_1_4_length)
  /\ cmap.subtable_0_5_14_data # NULL /\ cmap2.subtable_0_5_14_data # NULL =>
       Slice(d2, cmap2.subtable_0_5_14_data, cmap2.subtable_0_5_14_length)
         = Slice(d, cmap.subtable_0_5_14_data, cmap.subtable_0_5_14_length)

\* C2: when ots_cmap_parse and then ots_cmap_serialise succeeded, the parse
\* of the emitted bytes succeeds and yields a cmap equivalent to the first.
C2_RoundTrip ==
  pc = "reparsed" =>
    /\ file2[1].ok
    /\ Equivalent(CMAP(file), data, CMAP(file2[1].file), Emitted)

\* C5: when ots_cmap_parse has returned failure, every slot of the cmap is
\* empty.
C5_NothingRetainedOnFailure ==
  pc = "parsed" /\ ~parse_ok => CMAP(file) = EmptyCMAP

\* the checksum of the table of offsets as the stream holds it
DirectorySum ==
  (ChecksumAdd([chksum |-> <<0, 0>>, chksum_buffer |-> <<>>],
               SubSeq(out.buf, table_start + 5, table_start + 4 + 8 * EmittedCount))).chksum

\* C6: when ots_cmap_serialise has returned after it saved and reset the
\* checksum state of the stream, by success or by failure, the saved state
\* is restored: the saved sum is part of the sum of the stream again, and
\* the hanging bytes are the saved ones.
C6_ChecksumRestored ==
  pc = "serialised" /\ saved_checksum # <<>> =>
    /\ out.chksum = Add32(saved_checksum[1].chksum, DirectorySum)
    /\ out.chksum_buffer = saved_checksum[1].chksum_buffer

\* the same of the returns by success only
ChecksumRestoredOnSuccess ==
  pc = "serialised" /\ serialise_ok =>
    /\ saved_checksum # <<>>
    /\ out.chksum = Add32(saved_checksum[1].chksum, DirectorySum)
    /\ out.chksum_buffer = saved_checksum[1].chksum_buffer

\* ---- the extents of the subtables ----
\* the headers that the table holds, with format and length, when the
\* table of offsets and every subtable header can be read
DirectoryReadable ==
  /\ CanRead(Len(data), 0, 4)
  /\ CanRead(Len(data), 4, 8 * U16At(data, 2))
  /\ \A k \in 1 .. U16At(data, 2) :
       /\ ReadHeaders(data, U16At(data, 2))[k].offset < Len(data)
       /\ FormatReadable(data, Len(data), ReadHeaders(data, U16At(data, 2))[k])

HeadersOfData ==
  [ k \in 1 .. U16At(data, 2) |-> WithFormat(data, ReadHeaders(data, U16At(data, 2))[k]) ]

\* every check of the directory but the check of the overlaps passes
RegularButForOverlaps ==
  /\ DirectoryReadable
  /\ U16At(data, 0) = 0
  /\ U16At(data, 2) # 0
  /\ OffsetsValid(HeadersOfData, 4 + 8 * U16At(data, 2), Len(data))
  /\ LengthsSane(HeadersOfData, Len(data))
  /\ file.maxp # <<>>

\* byte x lies in the extent [offset, offset + length) of header h
InExtent(x, h) == h.offset <= x /\ x < h.offset + h.length

SameExtent(g, h) == g.offset = h.offset /\ g.length = h.length

ShareNoByte(g, h, length) == \A x \in 0 .. length - 1 : ~(InExtent(x, g) /\ InExtent(x, h))

\* any two extents are the same extent or share no byte
ExtentsRegular(headers, length) ==
  \A a \in 1 .. Len(headers) : \A b \in 1 .. Len(headers) :
    SameExtent(headers[a], headers[b]) \/ ShareNoByte(headers[a], headers[b], length)

\* C8: when ots_cmap_parse accepts the directory, any two records have the
\* same extent or extents that share no byte; and a directory that passes
\* every other check and whose extents are such, among them extents that
\* are the same and extents that touch, is accepted.
C8_ExtentsSameOrDisjoint ==
  /\ subtable_headers # <<>> => ExtentsRegular(subtable_headers, Len(data))
  /\ pc # "parse" /\ RegularButForOverlaps /\ ExtentsRegular(HeadersOfData, Len(data)) =>
       subtable_headers # <<>>

\* an accepted directory with two records of the same extent, not empty,
\* and two records whose extents, not empty, touch, while the whole cmap parses
C8_Witness ==
  /\ pc = "parsed" /\ parse_ok
  /\ \E a \in 1 .. Len(subtable_headers) : \E b \in 1 .. Len(subtable_headers) :
       /\ a # b
       /\ subtable_headers[a].length # 0
       /\ SameExtent(subtable_headers[a], subtable_headers[b])
  /\ \E a \in 1 .. Len(subtable_headers) : \E b \in 1 .. Len(subtable_headers) :
       /\ subtable_headers[a].length # 0
       /\ subtable_headers[b].length # 0
       /\ EndByte(subtable_headers[a]) = subtable_headers[b].offset

\* ---- odd id_range_offset ----
\* the number of segments that the format 4 subtable of header h declares,
\* and the id_range_offset of its segment n (1-based) as the table holds it
SegcountAt(h) == U16At(data, h.offset + 6) \div 2

RawIdRangeOffset(h, n) == U16At(data, h.offset + 16 + 6 * SegcountAt(h) + 2 * (n - 1))

\* the format 4 records whose four arrays lie within the subtable
SegmentsReadable ==
  { k \in 1 .. Len(subtable_headers) :
      /\ RowOfParse3x4(subtable_headers[k])
      /\ SegcountAt(subtable_headers[k]) >= 1
      /\ 16 + 8 * SegcountAt(subtable_headers[k]) <= subtable_headers[k].length }

\* the slot that Parse3x4 fills for header h: (3, 0, 4) has its own, the
\* other rows share the slot of (3, 1, 4)
SlotOf(h) ==
  IF h.platform = 3 /\ h.encoding = 0
  THEN <<CMAP(file).subtable_3_0_4_data, CMAP(file).subtable_3_0_4_length>>
  ELSE <<CMAP(file).subtable_3_1_4_data, CMAP(file).subtable_3_1_4_length>>

\* C11: a format 4 subtable with an odd id_range_offset in a segment that is
\* not the last is not accepted; one with an odd id_range_offset in the last
\* segment is accepted only when every code point of that segment passes the
\* id_delta rule (cp + id_delta) mod 65536 < num_glyphs, and the slot then
\* holds the bytes of the input, the odd value included.
C11_OddIdRangeOffset ==
  \A k \in SegmentsReadable :
    LET h == subtable_headers[k]
        last == F4Ranges(data, h.offset)[SegcountAt(h)]
    IN k <= i =>
         /\ \A n \in 1 .. SegcountAt(h) - 1 : RawIdRangeOffset(h, n) % 2 = 0
         /\ RawIdRangeOffset(h, SegcountAt(h)) % 2 = 1 =>
              /\ \A cp \in last.start_range .. last.end_range :
                   (cp + last.id_delta) % UINT16 < NumGlyphs
              /\ k = i /\ file.cmap # <<>> =>
                   /\ SlotOf(h) = <<h.offset, h.length>>
                   /\ U16At(data, SlotOf(h)[1] + last.id_range_offset_offset) % 2 = 1

\* the same for the subtables of two segments or more, whose last segment
\* the simulation takes
OddIdRangeOffsetBehindFirst ==
  \A k \in SegmentsReadable :
    LET h == subtable_headers[k]
        last == F4Ranges(data, h.offset)[SegcountAt(h)]
    IN k <= i =>
         /\ \A n \in 1 .. SegcountAt(h) - 1 : RawIdRangeOffset(h, n) % 2 = 0
         /\ RawIdRangeOffset(h, SegcountAt(h)) % 2 = 1 =>
              /\ SegcountAt(h) >= 2 =>
                   \A cp \in last.start_range .. last.end_range :
                     (cp + last.id_delta) % UINT16 < NumGlyphs
              /\ k = i /\ file.cmap # <<>> =>
                   /\ SlotOf(h) = <<h.offset, h.length>>
                   /\ U16At(data, SlotOf(h)[1] + last.id_range_offset_offset) % 2 = 1

\* an accepted subtable of two segments or more whose last segment holds an
\* odd id_range_offset
OddLastSegmentAccepted ==
  \E k \in SegmentsReadable :
    /\ k = i
    /\ SegcountAt(subtable_headers[k]) >= 2
    /\ RawIdRangeOffset(subtable_headers[k], SegcountAt(subtable_headers[k])) % 2 = 1
\* ---- the groups of format 13 ----
\* C12: in every format 13 subtable that Parse31013 has accepted, every
\* group has start_range <= end_range, the groups are strictly increasing
\* by start_range, and every group starts behind the end of the one before.
C12_Format13GroupsWellFormed ==
  \A k \in 1 .. i :
    RowOfParse31013(subtable_headers[k]) =>
      LET groups == GroupsAt(subtable_headers[k], 14)
      IN /\ \A n \in 1 .. Len(groups) : groups[n].start_range <= groups[n].end_range
         /\ \A n \in 2 .. Len(groups) :
              /\ groups[n].start_range > groups[n - 1].start_range
              /\ groups[n].start_range > groups[n - 1].end_range

\* the order of the groups alone, which the second loop of Parse31013 checks
Format13GroupsOrdered ==
  \A k \in 1 .. i :
    RowOfParse31013(subtable_headers[k]) =>
      LET groups == GroupsAt(subtable_headers[k], 14)
      IN \A n \in 2 .. Len(groups) :
           /\ groups[n].start_range > groups[n - 1].start_range
           /\ groups[n].start_range > groups[n - 1].end_range
\* ---- the slots that several records fill ----
\* the records of the directory that Parse3x4 stores in the slot of
\* (3, 1, 4), and the record of platform, encoding and format 12
Targets314 ==
  { k \in 1 .. Len(subtable_headers) :
      /\ subtable_headers[k].format = 4
      /\ <<subtable_headers[k].platform, subtable_headers[k].encoding>>
           \in { <<0, 0>>, <<0, 3>>, <<3, 1>> } }

Records12(platform, encoding) ==
  { k \in 1 .. Len(subtable_headers) :
      /\ subtable_headers[k].format = 12
      /\ subtable_headers[k].platform = platform
      /\ subtable_headers[k].encoding = encoding }

\* whether the key (platform, encoding) of header a is at most that of b
KeyAtMost(a, b) ==
  \/ a.platform < b.platform
  \/ a.platform = b.platform /\ a.encoding <= b.encoding

\* the bytes of the subtable of header h
BytesOf(h) == Slice(data, h.offset, h.length)

\* C13: after a parse that succeeded, the slot of (3, 1, 4) holds the bytes
\* of the record of the highest key among (0, 0, 4), (0, 3, 4) and (3, 1, 4)
\* (nothing when there is none), and the slot of (3, 10, 12) holds exactly
\* the groups of the record (3, 10, 12) when there is one, else exactly those
\* of (0, 3, 12), else nothing.
C13_AliasedSlotsHoldLastRecord ==
  parse_ok /\ file.cmap # <<>> =>
    /\ IF Targets314 = {}
       THEN CMAP(file).subtable_3_1_4_data = NULL
       ELSE \E k \in Targets314 :
              /\ \A j \in Targets314 : KeyAtMost(subtable_headers[j], subtable_headers[k])
              /\ CMAP(file).subtable_3_1_4_data # NULL
              /\ Slice(data, CMAP(file).subtable_3_1_4_data, CMAP(file).subtable_3_1_4_length)
                   = BytesOf(subtable_headers[k])
    /\ IF Records12(3, 10) # {}
       THEN \A k \in Records12(3, 10) :
              CMAP(file).subtable_3_10_12 = GroupsAt(subtable_headers[k], 16)
       ELSE IF Records12(0, 3) # {}
       THEN \A k \in Records12(0, 3) :
              CMAP(file).subtable_3_10_12 = GroupsAt(subtable_headers[k], 16)
       ELSE CMAP(file).subtable_3_10_12 = <<>>

\* a parse that succeeded on a directory with two records for the slot of
\* (3, 1, 4) whose bytes differ, and with the records (0, 3, 12) and
\* (3, 10, 12) whose groups differ
C13_Witness ==
  /\ parse_ok /\ file.cmap # <<>>
  /\ \E j \in Targets314 : \E k \in Targets314 :
       BytesOf(subtable_headers[j]) # BytesOf(subtable_headers[k])
  /\ \E j \in Records12(0, 3) : \E k \in Records12(3, 10) :
       GroupsAt(subtable_headers[j], 16) # GroupsAt(subtable_headers[k], 16)
\* ---- OS/2 first_char_index and last_char_index ----
\* the start codes and the end codes, other than 0xFFFF, of the segments
\* behind the first of the format 4 subtable of header h
StartCodesBehindFirst(h) ==
  { F4Ranges(data, h.offset)[n].start_range : n \in 2 .. SegcountAt(h) } \ {65535}

EndCodesBehindFirst(h) ==
  { F4Ranges(data, h.offset)[n].end_range : n \in 2 .. SegcountAt(h) } \ {65535}

Min(S) == CHOOSE x \in S : \A y \in S : x <= y

Max(S) == CHOOSE x \in S : \A y \in S : x >= y

\* C14: when Parse3x4 accepts a subtable, having started with
\* first_char_index F and last_char_index L in OS/2, it leaves
\* first_char_index at 0xFFFF if F is 0xFFFF and else at the least of F and
\* the start codes other than 0xFFFF of the segments behind the first, and
\* last_char_index at the greatest of L and the end codes other than 0xFFFF
\* of the segments behind the first; the first segment changes neither.
C14_OS2FixUp ==
  [][ pc = "dispatch" /\ i' = i + 1 /\ RowOfParse3x4(subtable_headers[i + 1]) =>
        LET h == subtable_headers[i + 1]
            F == file.os2[1].first_char_index
            L == file.os2[1].last_char_index
        IN /\ file'.os2[1].first_char_index =
                IF F = 65535 THEN 65535 ELSE Min(StartCodesBehindFirst(h) \cup {F})
           /\ file'.os2[1].last_char_index = Max(EndCodesBehindFirst(h) \cup {L}) ]_vars

\* an accepted subtable whose first segment begins below first_char_index,
\* which a later segment has lowered from 100 to 64, while last_char_index
\* has remained 0xFFFF
C14_Witness ==
  /\ i = 1
  /\ RowOfParse3x4(subtable_headers[1])
  /\ SegcountAt(subtable_headers[1]) >= 2
  /\ file.os2[1].first_char_index = 64
  /\ file.os2[1].last_char_index = 65535
  /\ F4Ranges(data, subtable_headers[1].offset)[1].start_range < 64
  /\ F4Ranges(data, subtable_headers[1].offset)[2].start_range = 64
\* ---- format 14 ----
\* the records that the dispatch loop hands to Parse0514
RowOfParse0514(h) == h.format = 14 /\ h.platform = 0 /\ h.encoding = 5

\* variation selector record n (0-based) of the format 14 subtable of
\* header h, as the table holds it
VarSelectorRecord(h, n) ==
  [ var_selector |-> U24At(data, h.offset + 10 + 11 * n),
    def_uvs_offset |-> U32At(data, h.offset + 10 + 11 * n + 3),
    non_def_uvs_offset |-> U32At(data, h.offset + 10 + 11 * n + 7) ]

\* the offset behind the nested table at `offset` of the subtable, with its
\* count and its entries of `size` bytes
NestedEnd(h, offset, size) == offset + 4 + size * U32At(data, h.offset + offset)

\* C15: in every format 14 subtable that Parse0514 has accepted, the
\* var_selector values are strictly increasing and at most 0x10FFFF, every
\* non-zero def_uvs_offset and non_def_uvs_offset is at most length - 4,
\* every glyph of every non-default UVS mapping is below num_glyphs, and the
\* records and the nested tables with all their entries lie within the
\* length of the subtable.
C15_Format14Validated ==
  \A k \in 1 .. i :
    RowOfParse0514(subtable_headers[k]) =>
      LET h == subtable_headers[k]
          num_var_selector_records == U32At(data, h.offset + 6)
      IN /\ 10 + 11 * num_var_selector_records <= h.length
         /\ \A n \in 0 .. num_var_selector_records - 1 :
              LET record == VarSelectorRecord(h, n)
              IN /\ record.var_selector <= 1114111
                 /\ n > 0 => record.var_selector > VarSelectorRecord(h, n - 1).var_selector
                 /\ record.def_uvs_offset # 0 =>
                      /\ record.def_uvs_offset <= h.length - 4
                      /\ NestedEnd(h, record.def_uvs_offset, 4) <= h.length
                 /\ record.non_def_uvs_offset # 0 =>
                      /\ record.non_def_uvs_offset <= h.length - 4
                      /\ NestedEnd(h, record.non_def_uvs_offset, 5) <= h.length
                      /\ \A j \in 0 .. U32At(data, h.offset + record.non_def_uvs_offset) - 1 :
                           U16At(data, h.offset + record.non_def_uvs_offset + 4 + 5 * j + 3)
                             < NumGlyphs

\* an accepted subtable of two records, one with a non-default UVS table
\* whose last mapping ends at the last byte of the subtable
C15_Witness ==
  \E k \in 1 .. i :
    /\ RowOfParse0514(subtable_headers[k])
    /\ U32At(data, subtable_headers[k].offset + 6) = 2
    /\ \E n \in 0 .. 1 :
         /\ VarSelectorRecord(subtable_headers[k], n).non_def_uvs_offset # 0
         /\ U32At(data, subtable_headers[k].offset
                        + VarSelectorRecord(subtable_headers[k], n).non_def_uvs_offset) > 0
         /\ NestedEnd(subtable_headers[k],
                      VarSelectorRecord(subtable_headers[k], n).non_def_uvs_offset, 5)
              = subtable_headers[k].length
\* an accepted subtable with a nested table that begins at length - 4
NestedTableAtTheEnd ==
  \E k \in 1 .. i :
    /\ RowOfParse0514(subtable_headers[k])
    /\ \E n \in 0 .. U32At(data, subtable_headers[k].offset + 6) - 1 :
         subtable_headers[k].length - 4
           \in { VarSelectorRecord(subtable_headers[k], n).def_uvs_offset,
                 VarSelectorRecord(subtable_headers[k], n).non_def_uvs_offset }
\* ---- format 0 ----
\* the records that the dispatch loop hands to Parse100
RowOfParse100(h) == h.format = 0 /\ h.platform = 1 /\ h.encoding = 0

\* C16: after a parse that succeeded, the glyph id array of format 0 holds
\* no entry or exactly kFormat0ArraySize entries, the directory holds at
\* most one record (1, 0), and the kFormat0ArraySize bytes that the
\* serialiser writes from the array, whenever it writes them, are entries of
\* the array.
C16_Format0ArrayFullOrEmpty ==
  parse_ok /\ file.cmap # <<>> =>
    /\ Len(CMAP(file).subtable_1_0_0) \in {0, kFormat0ArraySize}
    /\ Cardinality({ k \in 1 .. Len(subtable_headers) : RowOfParse100(subtable_headers[k]) }) <= 1
    /\ Have100(CMAP(file)) => kFormat0ArraySize <= Len(CMAP(file).subtable_1_0_0)
    /\ Serialised /\ Have100(CMAP(file)) =>
         Slice(Emitted, BodyOffset(1) + 6, kFormat0ArraySize) = CMAP(file).subtable_1_0_0

\* a table with a record (1, 0) of format 0 that was parsed and serialised:
\* the array holds kFormat0ArraySize entries
C16_Witness ==
  /\ Serialised
  /\ \E k \in 1 .. Len(subtable_headers) : RowOfParse100(subtable_headers[k])
  /\ Len(CMAP(file).subtable_1_0_0) = kFormat0ArraySize
====
